---- MODULE Spec2Model ----
(***************************************************************************)
(* ansari-whatsapp: the webhook relay between Meta's WhatsApp Cloud API    *)
(* and the Ansari backend.  The module models                              *)
(*   - the outbound message splitter (utils/whatsapp_message_splitter.py), *)
(*   - the formatter (presenters/whatsapp_message_formatter.py),           *)
(*   - signature verification, payload parsing and response construction   *)
(*     (utils/whatsapp_webhook_utils.py),                                  *)
(*   - the POST /whatsapp/v2 endpoint (app/main.py) and the conversation   *)
(*     manager with its typing-indicator loop                              *)
(*     (services/whatsapp_conversation_manager.py).                        *)
(* Texts are sequences of one-character strings.                           *)
(***************************************************************************)
EXTENDS Integers, Sequences, FiniteSets, TLC

(***************************************************************************)
(* Bounds of the model.                                                    *)
(***************************************************************************)
\* WHATSAPP_MAX_MESSAGE_LENGTH is 4000 in whatsapp_message_splitter.py:8.
\* The splitter is checked at a scaled-down limit so that texts longer than
\* the limit can be enumerated; every tier takes the limit as a parameter.
WHATSAPP_MAX_MESSAGE_LENGTH == 6
\* Inputs of the splitter are concatenations of at most MaxTokens tokens.
MaxTokens == 4
\* An awaited request (a typing-indicator request to Meta, a call of the
\* backend) returns at once or MaxRequestSeconds seconds after the previous
\* step, and the requests of one context take at most MaxRequestSeconds
\* seconds in total.
MaxRequestSeconds == 15

(***************************************************************************)
(* Characters and generic sequence helpers.                                *)
(***************************************************************************)
\* An absent (None) integer time, and a timestamp string int() cannot parse.
AbsentTime == -1
BadTime == -2
\* A timestamp beyond the range of the platform's time_t (10^18, say).
HugeTime == -3
NL == "\n"
STAR == "*"
UNDER == "_"
Absent == "None"

\* A JSON null met as a value of the payload (Python None after parsing).
JsonNull == "null"

\* str.join("") over a list of strings: the concatenation of the chunks.
RECURSIVE Concat(_)
Concat(ss) == IF ss = << >> THEN << >> ELSE Head(ss) \o Concat(Tail(ss))

\* text[a:b] with 0-based, end-exclusive Python indices, 0 <= a <= b.
Slice(text, a, b) ==
    LET e == IF b > Len(text) THEN Len(text) ELSE b
    IN  IF a >= e THEN << >> ELSE SubSeq(text, a + 1, e)

\* End (exclusive, 0-based) of the maximal run, starting at 0-based index i,
\* of characters that are not in the set stop.
RECURSIVE RunEnd(_, _, _)
RunEnd(text, i, stop) ==
    IF i >= Len(text) \/ text[i + 1] \in stop THEN i
    ELSE RunEnd(text, i + 1, stop)

(***************************************************************************)
(* Message splitter: utils/whatsapp_message_splitter.py                    *)
(***************************************************************************)
\* End of the match of header_pattern  \*_[^*_]+_\*  at 0-based index i,
\* or -1 when the pattern does not match there.
HeaderMatchEnd(text, i) ==
    IF i + 1 < Len(text) /\ text[i + 1] = STAR /\ text[i + 2] = UNDER
    THEN LET r == RunEnd(text, i + 2, {STAR, UNDER})
         IN  IF r > i + 2 /\ r + 1 < Len(text)
                /\ text[r + 1] = UNDER /\ text[r + 2] = STAR
             THEN r + 2 ELSE -1
    ELSE -1

\* End of the match of bold_pattern  \*[^*]+\*  at 0-based index i, or -1.
BoldMatchEnd(text, i) ==
    IF i < Len(text) /\ text[i + 1] = STAR
    THEN LET r == RunEnd(text, i + 1, {STAR})
         IN  IF r > i + 1 /\ r < Len(text) THEN r + 1 ELSE -1
    ELSE -1

\* list(header_pattern.finditer(text)): the leftmost non-overlapping matches,
\* each as <<start, end>> (0-based, end exclusive), scanning from index i.
RECURSIVE HeaderMatches(_, _)
HeaderMatches(text, i) ==
    IF i >= Len(text) THEN << >>
    ELSE LET e == HeaderMatchEnd(text, i)
         IN  IF e # -1 THEN << <<i, e>> >> \o HeaderMatches(text, e)
             ELSE HeaderMatches(text, i + 1)

\* list(bold_pattern.finditer(text)), scanning from index i.
RECURSIVE BoldMatches(_, _)
BoldMatches(text, i) ==
    IF i >= Len(text) THEN << >>
    ELSE LET e == BoldMatchEnd(text, i)
         IN  IF e # -1 THEN << <<i, e>> >> \o BoldMatches(text, e)
             ELSE BoldMatches(text, i + 1)

\* End of the maximal run of newlines starting at 0-based index i.
RECURSIVE NlRunEnd(_, _)
NlRunEnd(text, i) ==
    IF i >= Len(text) \/ text[i + 1] # NL THEN i ELSE NlRunEnd(text, i + 1)

\* re.split(r"\n\n+", text): the pieces between maximal runs of two or more
\* newlines (empty pieces included); i scans, start is where the piece began.
RECURSIVE ReSplitBlank(_, _, _)
ReSplitBlank(text, i, start) ==
    IF i >= Len(text) THEN << Slice(text, start, Len(text)) >>
    ELSE IF text[i + 1] = NL /\ NlRunEnd(text, i) >= i + 2
         THEN << Slice(text, start, i) >>
              \o ReSplitBlank(text, NlRunEnd(text, i), NlRunEnd(text, i))
         ELSE ReSplitBlank(text, i + 1, start)

\* [text[i : i + max_length] for i in range(from, len(text), max_length)]
RECURSIVE FixedWindows(_, _, _)
FixedWindows(text, from, max_length) ==
    IF from >= Len(text) THEN << >>
    ELSE << Slice(text, from, from + max_length) >>
         \o FixedWindows(text, from + max_length, max_length)

\* Mutation: the windows are one character too long.
split_by_fixed_chunks_OffByOne(text, max_length) ==
    IF Len(text) <= max_length THEN << text >>
    ELSE FixedWindows(text, 0, max_length + 1)

split_by_fixed_chunks(text, max_length) ==
    IF Len(text) <= max_length THEN << text >>
    ELSE FixedWindows(text, 0, max_length)

\* The `for para in paragraphs` loop of split_by_paragraphs followed by the
\* final flush; st = [chunks, current] is the loop state before paragraph k.
RECURSIVE ParagraphLoop(_, _, _, _)
ParagraphLoop(paragraphs, k, st, max_length) ==
    IF k > Len(paragraphs)
    THEN IF st.current # << >> THEN Append(st.chunks, st.current) ELSE st.chunks
    ELSE LET para == paragraphs[k]
             s1 == IF st.current # << >>
                      /\ Len(st.current) + Len(para) + 2 > max_length
                   THEN [chunks |-> Append(st.chunks, st.current), current |-> << >>]
                   ELSE st
             s2 == IF Len(para) > max_length
                   THEN LET s3 == IF s1.current # << >>
                                  THEN [chunks |-> Append(s1.chunks, s1.current),
                                        current |-> << >>]
                                  ELSE s1
                        IN  [chunks |-> s3.chunks \o split_by_fixed_chunks(para, max_length),
                             current |-> s3.current]
                   ELSE IF s1.current # << >>
                        THEN [chunks |-> s1.chunks,
                              current |-> s1.current \o <<NL, NL>> \o para]
                        ELSE [chunks |-> s1.chunks, current |-> para]
         IN  ParagraphLoop(paragraphs, k + 1, s2, max_length)

\* Mutation: the loop over the paragraphs starts at the second one.
split_by_paragraphs_SkipsFirst(text, max_length) ==
    IF Len(text) <= max_length THEN << text >>
    ELSE LET paragraphs == ReSplitBlank(text, 0, 0)
         IN  IF Len(paragraphs) > 1
             THEN ParagraphLoop(paragraphs, 2,
                                [chunks |-> << >>, current |-> << >>], max_length)
             ELSE split_by_fixed_chunks(text, max_length)

split_by_paragraphs(text, max_length) ==
    IF Len(text) <= max_length THEN << text >>
    ELSE LET paragraphs == ReSplitBlank(text, 0, 0)
         IN  IF Len(paragraphs) > 1
             THEN ParagraphLoop(paragraphs, 1,
                                [chunks |-> << >>, current |-> << >>], max_length)
             ELSE split_by_fixed_chunks(text, max_length)

\* The text before the first match, as its own chunk(s): the `i == 0 and
\* match.start() > 0` branch shared by split_by_headers and split_by_bold_text.
PrefixChunks(text, matches, max_length) ==
    IF matches[1][1] > 0
    THEN LET prefix == Slice(text, 0, matches[1][1])
         IN  IF Len(prefix) <= max_length THEN << prefix >>
             ELSE split_by_paragraphs(prefix, max_length)
    ELSE << >>

\* text[match.start() : end_pos] for the i-th match (1-based).
MatchChunk(text, matches, i) ==
    Slice(text, matches[i][1],
          IF i < Len(matches) THEN matches[i + 1][1] ELSE Len(text))

\* The `for i, match in enumerate(bold_matches)` loop from match i on.
RECURSIVE BoldLoop(_, _, _, _)
BoldLoop(text, matches, i, max_length) ==
    IF i > Len(matches) THEN << >>
    ELSE LET chunk == MatchChunk(text, matches, i)
         IN  (IF Len(chunk) <= max_length THEN << chunk >>
              ELSE split_by_paragraphs(chunk, max_length))
             \o BoldLoop(text, matches, i + 1, max_length)

split_by_bold_text(text, max_length) ==
    IF Len(text) <= max_length THEN << text >>
    ELSE LET bold_matches == BoldMatches(text, 0)
         IN  IF Len(bold_matches) <= 1 THEN split_by_paragraphs(text, max_length)
             ELSE PrefixChunks(text, bold_matches, max_length)
                  \o BoldLoop(text, bold_matches, 1, max_length)

\* The `for i, match in enumerate(headers)` loop from match i on.
RECURSIVE HeaderLoop(_, _, _, _)
HeaderLoop(text, matches, i, max_length) ==
    IF i > Len(matches) THEN << >>
    ELSE LET chunk == MatchChunk(text, matches, i)
         IN  (IF Len(chunk) <= max_length THEN << chunk >>
              ELSE split_by_bold_text(chunk, max_length))
             \o HeaderLoop(text, matches, i + 1, max_length)

split_by_headers(text, max_length) ==
    LET headers == HeaderMatches(text, 0)
    IN  IF Len(headers) <= 1 THEN << text >>
        ELSE PrefixChunks(text, headers, max_length)
             \o HeaderLoop(text, headers, 1, max_length)

split_message_RegroupsShortText(msg_body) ==
    IF Len(msg_body) <= WHATSAPP_MAX_MESSAGE_LENGTH
    THEN LET paragraphs == ReSplitBlank(msg_body, 0, 0)
         IN  IF Len(paragraphs) > 1
             THEN ParagraphLoop(paragraphs, 1,
                                [chunks |-> << >>, current |-> << >>],
                                WHATSAPP_MAX_MESSAGE_LENGTH)
             ELSE << msg_body >>
    ELSE LET header_chunks == split_by_headers(msg_body, WHATSAPP_MAX_MESSAGE_LENGTH)
         IN  IF Len(header_chunks) > 1 THEN header_chunks
             ELSE LET bold_chunks == split_by_bold_text(msg_body, WHATSAPP_MAX_MESSAGE_LENGTH)
                  IN  IF Len(bold_chunks) > 1 THEN bold_chunks
                      ELSE split_by_paragraphs(msg_body, WHATSAPP_MAX_MESSAGE_LENGTH)

\* Mutation: the bold tier is tried before the header tier.
split_message_BoldFirst(msg_body) ==
    IF Len(msg_body) <= WHATSAPP_MAX_MESSAGE_LENGTH THEN << msg_body >>
    ELSE IF Len(BoldMatches(msg_body, 0)) > 1
    THEN split_by_bold_text(msg_body, WHATSAPP_MAX_MESSAGE_LENGTH)
    ELSE LET header_chunks == split_by_headers(msg_body, WHATSAPP_MAX_MESSAGE_LENGTH)
         IN  IF Len(header_chunks) > 1 THEN header_chunks
             ELSE split_by_paragraphs(msg_body, WHATSAPP_MAX_MESSAGE_LENGTH)

split_message(msg_body) ==
    IF Len(msg_body) <= WHATSAPP_MAX_MESSAGE_LENGTH THEN << msg_body >>
    ELSE LET header_chunks == split_by_headers(msg_body, WHATSAPP_MAX_MESSAGE_LENGTH)
         IN  IF Len(header_chunks) > 1 THEN header_chunks
             ELSE LET bold_chunks == split_by_bold_text(msg_body, WHATSAPP_MAX_MESSAGE_LENGTH)
                  IN  IF Len(bold_chunks) > 1 THEN bold_chunks
                      ELSE split_by_paragraphs(msg_body, WHATSAPP_MAX_MESSAGE_LENGTH)

(***************************************************************************)
(* Message formatter: presenters/whatsapp_message_formatter.py and         *)
(* utils/language_utils.py.  Of the characters \s and \d match, texts hold *)
(* the space and the digits.                                               *)
(***************************************************************************)
\* End (exclusive, 0-based) of the maximal run, starting at 0-based index i,
\* of characters that are in the set chars.
RECURSIVE SpanEnd(_, _, _)
SpanEnd(text, i, chars) ==
    IF i >= Len(text) \/ text[i + 1] \notin chars THEN i
    ELSE SpanEnd(text, i + 1, chars)

\* Start (0-based) of the maximal run of characters of the set chars that
\* ends (exclusive) at hi and does not reach below lo.
RECURSIVE SpanStart(_, _, _, _)
SpanStart(text, lo, hi, chars) ==
    IF hi <= lo \/ text[hi] \notin chars THEN hi
    ELSE SpanStart(text, lo, hi - 1, chars)

\* rtl_count / len(text) > 0.3 with rtl_count the number of characters of
\* the RTL ranges ("rtl" in a text stands for one of them); the division
\* raises ZeroDivisionError on the empty text.
get_language_direction_from_text(text) ==
    LET rtl_count == Cardinality({k \in 1..Len(text) : text[k] = "rtl"})
    IN  IF Len(text) = 0 THEN "ZeroDivisionError"
        ELSE IF 10 * rtl_count > 3 * Len(text) THEN "rtl" ELSE "ltr"

\* End of the match of (?<![\*_])\*([^\*_]+?)\*(?![\*_]) at 0-based index i,
\* or -1.
ItalicMatchEnd(text, i) ==
    IF i < Len(text) /\ text[i + 1] = STAR
       /\ (i = 0 \/ text[i] \notin {STAR, UNDER})
    THEN LET r == RunEnd(text, i + 1, {STAR, UNDER})
         IN  IF r > i + 1 /\ r < Len(text) /\ text[r + 1] = STAR
                /\ (r + 1 >= Len(text) \/ text[r + 2] \notin {STAR, UNDER})
             THEN r + 1 ELSE -1
    ELSE -1

\* pattern.sub(r"_\1_", text), from 0-based index i on.
RECURSIVE ItalicSub(_, _)
ItalicSub(text, i) ==
    IF i >= Len(text) THEN << >>
    ELSE LET e == ItalicMatchEnd(text, i)
         IN  IF e # -1
             THEN <<UNDER>> \o Slice(text, i + 1, e - 1) \o <<UNDER>> \o ItalicSub(text, e)
             ELSE <<text[i + 1]>> \o ItalicSub(text, i + 1)

convert_italic_syntax(text) == ItalicSub(text, 0)

\* text.replace("**", "*"), from 0-based index i on.
RECURSIVE ReplaceDoubleStar(_, _)
ReplaceDoubleStar(text, i) ==
    IF i >= Len(text) THEN << >>
    ELSE IF i + 1 < Len(text) /\ text[i + 1] = STAR /\ text[i + 2] = STAR
         THEN <<STAR>> \o ReplaceDoubleStar(text, i + 2)
         ELSE <<text[i + 1]>> \o ReplaceDoubleStar(text, i + 1)

convert_bold_syntax(text) == ReplaceDoubleStar(text, 0)

\* The match of  (?! )#+ \**_*(.*?)\**_*\n  at 0-based index i, followed by
\* (?!\n) when blank is FALSE and by a second \n when blank is TRUE: whether
\* it was found, the captured group as <<start, end>> and the end of the
\* match.  The greedy runs take all the hashes, stars and underscores; the
\* lazy group stops before the last stars-then-underscores run of the line.
MarkdownHeaderMatch(text, i, blank) ==
    LET NoMatch == [found |-> FALSE, group |-> <<0, 0>>, end |-> 0]
        h == SpanEnd(text, i, {"#"})
        u == SpanEnd(text, SpanEnd(text, h + 1, {STAR}), {UNDER})
        e == RunEnd(text, u, {NL})
        q == SpanStart(text, u, SpanStart(text, u, e, {UNDER}), {STAR})
        second_newline == e + 1 < Len(text) /\ text[e + 2] = NL
    IN  IF i < Len(text) /\ text[i + 1] = "#" /\ h < Len(text) /\ text[h + 1] = " "
           /\ e < Len(text)
        THEN IF blank
             THEN (IF second_newline
                   THEN [found |-> TRUE, group |-> <<u, q>>, end |-> e + 2] ELSE NoMatch)
             ELSE (IF second_newline
                   THEN NoMatch ELSE [found |-> TRUE, group |-> <<u, q>>, end |-> e + 1])
        ELSE NoMatch

\* pattern.sub(r"*_\1_*\n\n", text), from 0-based index i on.
RECURSIVE HeaderSub(_, _, _)
HeaderSub(text, i, blank) ==
    IF i >= Len(text) THEN << >>
    ELSE LET m == MarkdownHeaderMatch(text, i, blank)
         IN  IF m.found
             THEN <<STAR, UNDER>> \o Slice(text, m.group[1], m.group[2])
                  \o <<UNDER, STAR, NL, NL>> \o HeaderSub(text, m.end, blank)
             ELSE <<text[i + 1]>> \o HeaderSub(text, i + 1, blank)

\* Headers with content directly after them, then headers with an empty
\* line after them.
convert_headers(text) == HeaderSub(HeaderSub(text, 0, FALSE), 0, TRUE)

\* text.split("\n"), from 0-based index i on; start is where the line began.
RECURSIVE SplitLines(_, _, _)
SplitLines(text, i, start) ==
    IF i >= Len(text) THEN << Slice(text, start, Len(text)) >>
    ELSE IF text[i + 1] = NL
         THEN << Slice(text, start, i) >> \o SplitLines(text, i + 1, i + 1)
         ELSE SplitLines(text, i + 1, start)

\* "\n".join(lines)
RECURSIVE JoinLines(_)
JoinLines(lines) ==
    IF Len(lines) = 0 THEN << >>
    ELSE IF Len(lines) = 1 THEN lines[1]
    ELSE lines[1] \o <<NL>> \o JoinLines(Tail(lines))

\* re.sub(r"(\s*)(\d+)(\.) ", r"\1\2 - ", line), from 0-based index i on: a
\* dot between a digit and a space becomes " -".
RECURSIVE NumberedSub(_, _)
NumberedSub(line, i) ==
    IF i >= Len(line) THEN << >>
    ELSE IF line[i + 1] = "." /\ i > 0
            /\ line[i] \in {"0", "1", "2", "3", "4", "5", "6", "7", "8", "9"}
            /\ i + 1 < Len(line) /\ line[i + 2] = " "
         THEN <<" ", "-">> \o NumberedSub(line, i + 1)
         ELSE <<line[i + 1]>> \o NumberedSub(line, i + 1)

\* re.sub(r"(\s*)[\*-] ", r"\1-- ", line), from 0-based index i on: a star
\* or dash before a space becomes "--".
RECURSIVE BulletSub(_, _)
BulletSub(line, i) ==
    IF i >= Len(line) THEN << >>
    ELSE IF line[i + 1] \in {STAR, "-"} /\ i + 1 < Len(line) /\ line[i + 2] = " "
         THEN <<"-", "-">> \o BulletSub(line, i + 1)
         ELSE <<line[i + 1]>> \o BulletSub(line, i + 1)

\* The body of the loop over the lines: an indented list item is rewritten,
\* every other line is kept.  (in_nested_section and nested_section_indent
\* are written by the loop but decide nothing about the lines.)
\* current_indent is the length of the leading whitespace of a line that is
\* not blank; is_numbered_item is re.match(r"^\s*\d+\.\s", line) and
\* is_bullet_item is re.match(r"^\s*[\*-]\s", line).
FormatLine(line) ==
    LET Whitespace == {" "}
        w == SpanEnd(line, 0, Whitespace)
        d == SpanEnd(line, w, {"0", "1", "2", "3", "4", "5", "6", "7", "8", "9"})
        current_indent == IF w = Len(line) THEN 0 ELSE w
        is_numbered_item ==
            d > w /\ d + 1 < Len(line) /\ line[d + 1] = "." /\ line[d + 2] \in Whitespace
        is_bullet_item ==
            w + 1 < Len(line) /\ line[w + 1] \in {STAR, "-"} /\ line[w + 2] \in Whitespace
    IN  IF (is_numbered_item \/ is_bullet_item) /\ current_indent > 0
        THEN IF is_numbered_item THEN NumberedSub(line, 0) ELSE BulletSub(line, 0)
        ELSE line

format_nested_lists(text) ==
    LET lines == SplitLines(text, 0, 0)
    IN  JoinLines([k \in 1..Len(lines) |-> FormatLine(lines[k])])

\* The direction is computed first, so the empty text raises; the lists are
\* rewritten for either direction.
format_for_whatsapp(msg) ==
    LET msg_direction == get_language_direction_from_text(msg)
    IN  IF msg_direction = "ZeroDivisionError" THEN "ZeroDivisionError"
        ELSE LET headers == convert_headers(convert_bold_syntax(convert_italic_syntax(msg)))
             IN  IF msg_direction \in {"ltr", "rtl"} THEN format_nested_lists(headers)
                 ELSE headers

(***************************************************************************)
(* Configuration: utils/config.py (WhatsAppSettings)                       *)
(***************************************************************************)
WHATSAPP_CHAT_RETENTION_HOURS == 3
WHATSAPP_MESSAGE_AGE_THRESHOLD_SECONDS == 86400
MAX_DURATION_SECONDS == 300
INDICATOR_INTERVAL_SECONDS == 26
\* The comma-separated META_ANSARI_APP_SECRET after split(',') and strip().
META_ANSARI_APP_SECRET == <<"secretA", "secretB">>
META_BUSINESS_PHONE_NUMBER_ID == "pnid_ours"
\* Unix time at which the webhook arrives; clock counts the seconds since.
T0 == 1000000

DeploymentTypes == {"local", "development", "staging", "production"}
Settings ==
    [ALWAYS_RETURN_OK_TO_META : BOOLEAN,
     WHATSAPP_UNDER_MAINTENANCE : BOOLEAN,
     DEPLOYMENT_TYPE : DeploymentTypes]

(***************************************************************************)
(* Signature verification: utils/whatsapp_webhook_utils.py                 *)
(***************************************************************************)
\* The value of the X-Hub-Signature-256 header is a sequence of pieces: the
\* text 'sha256=', a hex digest, or text with a non-ASCII character.  The
\* empty sequence is the missing header (the default "").
Sha256Prefix == [kind |-> "sha256="]
HexDigest(d) == [kind |-> "hex", digest |-> d]
NonAsciiText == [kind |-> "non_ascii"]

\* hmac.new(secret, body, sha256).hexdigest(), idealised as collision free:
\* the digest determines the secret and the body.
hmac_sha256(secret, body_bytes) == <<secret, body_bytes>>

\* signature_header.replace("sha256=", ""): every occurrence is removed.
RemoveSha256(signature_header) ==
    SelectSeq(signature_header, LAMBDA piece : piece # Sha256Prefix)

\* hmac.compare_digest on two str raises TypeError when one of them holds a
\* non-ASCII character.
CompareDigestRaises(received_signature) ==
    \E i \in 1..Len(received_signature) : received_signature[i] = NonAsciiText

_verify_signature_with_secret(secret, body_bytes, received_signature) ==
    received_signature = << HexDigest(hmac_sha256(secret, body_bytes)) >>

\* Only the first three secrets (len(app_names)) are tried.
_verify_signature_multi(app_secrets, body_bytes, received_signature) ==
    \E i \in 1..Len(app_secrets) :
        /\ i <= 3
        /\ _verify_signature_with_secret(app_secrets[i], body_bytes, received_signature)

\* The body of verify_meta_signature for the configured secrets app_secrets:
\* "ok" when it returns, "forbidden" when it raises HTTPException(403),
\* "type_error" when the TypeError of compare_digest leaves it.
verify_signature(app_secrets, req) ==
    IF req.header = << >> \/ Head(req.header) # Sha256Prefix THEN "forbidden"
    ELSE LET signature_received_from_meta == RemoveSha256(req.header)
         IN  IF CompareDigestRaises(signature_received_from_meta) THEN "type_error"
             ELSE IF _verify_signature_multi(app_secrets, req.body,
                                             signature_received_from_meta)
             THEN "ok"
             ELSE "forbidden"

verify_meta_signature(req) == verify_signature(META_ANSARI_APP_SECRET, req)

(***************************************************************************)
(* Response construction: create_response_for_meta                         *)
(***************************************************************************)
\* Mutation: with the flag off the given status is used for successes too.
create_response_for_meta_StatusKept(always_ok, success, message, status_code, error_code, details, now) ==
    [kind |-> "json",
     status_code |-> IF ~always_ok THEN status_code ELSE 200,
     body |-> [success |-> success, message |-> message, timestamp |-> now,
               error_code |-> IF error_code = "" THEN Absent ELSE error_code,
               details |-> IF details = "" THEN Absent ELSE details]]

\* The body holds error_code and details only when they are truthy: None
\* (Absent) and the empty value are both left out.
create_response_for_meta(always_ok, success, message, status_code, error_code, details, now) ==
    [kind |-> "json",
     status_code |-> IF ~always_ok
                     THEN (IF ~success THEN status_code ELSE 200)
                     ELSE 200,
     body |-> [success |-> success, message |-> message, timestamp |-> now,
               error_code |-> IF error_code = "" THEN Absent ELSE error_code,
               details |-> IF details = "" THEN Absent ELSE details]]

\* What FastAPI answers when verify_meta_signature raises HTTPException(403).
HttpException403 ==
    [kind |-> "http_exception", status_code |-> 403,
     body |-> [detail |-> "Invalid signature"]]

\* What the server answers when an exception escapes main_webhook.
UnhandledException == [kind |-> "unhandled_exception", status_code |-> 500]

NoResponse == [kind |-> "none"]

(***************************************************************************)
(* Payload parsing: parse_meta_payload                                     *)
(* A request body is a record describing the JSON document:                *)
(*   json     "invalid" (not JSON), "list" (JSON, not an object), "dict"   *)
(*   object   whether body["object"] is present and truthy                 *)
(*   entry, changes   "absent", "empty" (empty list) or "ok"               *)
(*   value    "absent" or "ok"                                             *)
(*   metadata "absent", "no_id", or the phone_number_id it carries         *)
(*   statuses whether value has the key "statuses"                         *)
(*   messages "absent", "empty" or "ok" (then msg is messages[0])          *)
(* and msg = [from, type, type_value, errors_value, text, id, timestamp],  *)
(* where type_value is the shape of msg[msg.type] (Absent when the key is  *)
(* missing) and errors_value the shape of msg["errors"]; a shape is        *)
(* "text_dict" ({"body": text}), "dict" (a dict without "body") or "list". *)
(***************************************************************************)
ParseError == [error |-> TRUE]

Descriptor(is_status, is_target, phone, type, body, id, time) ==
    [error |-> FALSE, is_status |-> is_status,
     is_target_business_number |-> is_target,
     user_whatsapp_number |-> phone, incoming_msg_type |-> type,
     incoming_msg_body |-> body, message_id |-> id, message_unix_time |-> time]

\* The value of incoming_msg[key]: its shape and, for {"body": ...}, the text.
MsgValue(shape, text) ==
    [shape |-> shape, body |-> IF shape = "text_dict" THEN text ELSE << >>]

\* incoming_msg_body = None.
NoValue == [shape |-> Absent, body |-> << >>]

\* Mutation: the sender is read with .get, so a message without 'from' is
\* accepted with no phone number.
ParseMessage_FromOptional(m) ==
    IF m.timestamp = BadTime THEN ParseError
    ELSE IF m.type = Absent THEN ParseError
    ELSE LET incoming_msg_type ==
                 IF m.type_value # Absent THEN m.type ELSE "errors"
             shape == IF m.type_value # Absent THEN m.type_value
                      ELSE m.errors_value
         IN  IF shape = Absent THEN ParseError
             ELSE Descriptor(FALSE, TRUE,
                             IF m.from = JsonNull THEN Absent ELSE m.from,
                             incoming_msg_type,
                             MsgValue(shape, m.text), m.id, m.timestamp)

\* Mutation: a type with no entry of its own is kept instead of being
\* replaced by "errors".
ParseMessage_TypeKept(m) ==
    IF m.from = Absent THEN ParseError
    ELSE IF m.timestamp = BadTime THEN ParseError
    ELSE IF m.type = Absent THEN ParseError
    ELSE LET shape == IF m.type_value # Absent THEN m.type_value
                      ELSE m.errors_value
         IN  IF shape = Absent THEN ParseError
             ELSE Descriptor(FALSE, TRUE,
                             IF m.from = JsonNull THEN Absent ELSE m.from,
                             m.type,
                             MsgValue(shape, m.text), m.id, m.timestamp)

\* parse_meta_payload from `incoming_msg = value["messages"][0]` on: the
\* descriptor of message m, or ParseError when a lookup or int() raises.
ParseMessage(m) ==
    IF m.from = Absent THEN ParseError                  \* KeyError 'from'
    ELSE IF m.timestamp = BadTime THEN ParseError       \* int(): ValueError
    ELSE IF m.type = Absent THEN ParseError             \* KeyError 'type'
    ELSE LET incoming_msg_type ==
                 IF m.type_value # Absent THEN m.type ELSE "errors"
             shape == IF m.type_value # Absent THEN m.type_value
                      ELSE m.errors_value
         IN  IF shape = Absent THEN ParseError          \* KeyError 'errors'
             ELSE Descriptor(FALSE, TRUE,
                             IF m.from = JsonNull THEN Absent ELSE m.from,
                             incoming_msg_type,
                             MsgValue(shape, m.text), m.id, m.timestamp)

\* Mutation: the business-number check is made after the status and
\* messages checks.
parse_meta_payload_NumberCheckedLast(body) ==
    IF body.json # "dict" THEN ParseError
    ELSE IF ~(body.object /\ body.entry = "ok" /\ body.changes = "ok" /\ body.value = "ok")
    THEN ParseError
    ELSE IF body.metadata = "absent" THEN ParseError
    ELSE IF body.metadata = "no_id" THEN ParseError
    ELSE IF body.statuses
    THEN Descriptor(TRUE, TRUE, Absent, Absent, NoValue, Absent, AbsentTime)
    ELSE IF body.messages = "absent" THEN ParseError
    ELSE IF body.messages = "empty" THEN ParseError
    ELSE IF body.metadata # META_BUSINESS_PHONE_NUMBER_ID
    THEN Descriptor(Absent, FALSE, Absent, Absent, NoValue, Absent, AbsentTime)
    ELSE ParseMessage(body.msg)

parse_meta_payload(body) ==
    IF body.json # "dict" THEN ParseError               \* body.get: AttributeError
    ELSE IF ~(body.object /\ body.entry = "ok" /\ body.changes = "ok" /\ body.value = "ok")
    THEN ParseError
    ELSE IF body.metadata = "absent" THEN ParseError
    ELSE IF body.metadata = "no_id" THEN ParseError
    ELSE IF body.metadata # META_BUSINESS_PHONE_NUMBER_ID
    THEN Descriptor(Absent, FALSE, Absent, Absent, NoValue, Absent, AbsentTime)
    ELSE IF body.statuses
    THEN Descriptor(TRUE, TRUE, Absent, Absent, NoValue, Absent, AbsentTime)
    ELSE IF body.messages = "absent" THEN ParseError
    ELSE IF body.messages = "empty" THEN ParseError     \* IndexError
    ELSE ParseMessage(body.msg)

(***************************************************************************)
(* Time helpers: utils/time_utils.py                                       *)
(***************************************************************************)
\* passed_time of calculate_time_passed, with datetime.now() = now; inf marks
\* float("inf").
calculate_time_passed(last_message_time, now) ==
    IF last_message_time = AbsentTime THEN [inf |-> TRUE, seconds |-> 0]
    ELSE [inf |-> FALSE, seconds |-> now - last_message_time]

get_retention_time_seconds == WHATSAPP_CHAT_RETENTION_HOURS * 60 * 60

\* Mutation: the comparison with the retention time is inverted.
ExceedsRetention_Inverted(passed_time, allowed_time) ==
    passed_time.inf \/ passed_time.seconds < allowed_time

\* Mutation: a conversation exactly as old as the retention time counts as
\* expired.
ExceedsRetention_AtLeast(passed_time, allowed_time) ==
    passed_time.inf \/ passed_time.seconds >= allowed_time

\* passed_time > allowed_time, float("inf") exceeding every integer.
ExceedsRetention(passed_time, allowed_time) ==
    passed_time.inf \/ passed_time.seconds > allowed_time

\* datetime.fromtimestamp raises OSError or OverflowError for a timestamp
\* outside the platform's range; is_message_too_old catches ValueError and
\* TypeError only, so the exception leaves it.
TimestampOutOfRange(message_unix_time) == message_unix_time = HugeTime

\* The value is_message_too_old returns when it returns: `if not
\* message_unix_time` is true of None and of 0.
is_message_too_old(message_unix_time, now) ==
    IF message_unix_time = AbsentTime \/ message_unix_time = 0 THEN FALSE
    ELSE (now - message_unix_time) > WHATSAPP_MESSAGE_AGE_THRESHOLD_SECONDS

(***************************************************************************)
(* Inputs of one POST /whatsapp/v2 request and of its environment.         *)
(***************************************************************************)
SenderPhone == "201234567899"
MessageId == "wamid.1"
ExistingThread == "thread_1"
NewThread == "thread_2"
DevPrefix == <<"!", "d", " ">>

GoodMsg ==
    [from |-> SenderPhone, type |-> "text", type_value |-> "text_dict",
     errors_value |-> Absent, text |-> <<"h", "i">>, id |-> MessageId,
     timestamp |-> T0 - 60]

\* messages[0]: the well-formed text message and its variations.
Messages ==
    {GoodMsg}
    \cup {[GoodMsg EXCEPT !.from = f] : f \in {Absent, JsonNull, ""}}
    \cup {[GoodMsg EXCEPT !.type = Absent]}
    \cup {[GoodMsg EXCEPT !.type_value = v] : v \in {"dict", "list"}}
    \cup {[GoodMsg EXCEPT !.type = "image", !.type_value = "dict", !.timestamp = t] :
             t \in {T0 - 60, T0 - WHATSAPP_MESSAGE_AGE_THRESHOLD_SECONDS - 1}}
    \cup {[GoodMsg EXCEPT !.type = "poll", !.type_value = Absent, !.errors_value = e] :
             e \in {Absent, "list"}}
    \cup {[GoodMsg EXCEPT !.text = DevPrefix \o <<"h", "i">>]}
    \cup {[GoodMsg EXCEPT !.id = Absent]}
    \cup {[GoodMsg EXCEPT !.timestamp = t] :
             t \in {AbsentTime, BadTime, HugeTime, 0,
                    T0 - WHATSAPP_MESSAGE_AGE_THRESHOLD_SECONDS - 1,
                    T0 - WHATSAPP_MESSAGE_AGE_THRESHOLD_SECONDS,
                    T0 - WHATSAPP_MESSAGE_AGE_THRESHOLD_SECONDS + 1}}

GoodBody ==
    [json |-> "dict", object |-> TRUE, entry |-> "ok", changes |-> "ok",
     value |-> "ok", metadata |-> META_BUSINESS_PHONE_NUMBER_ID,
     statuses |-> FALSE, messages |-> "ok", msg |-> GoodMsg]

\* Request bodies: every message in a well-formed envelope, and the envelope
\* defects, wrong-number and status payloads around a few messages.
Bodies ==
    {[GoodBody EXCEPT !.msg = m] : m \in Messages}
    \cup {[GoodBody EXCEPT !.json = j] : j \in {"invalid", "list"}}
    \cup {[GoodBody EXCEPT !.object = FALSE]}
    \cup {[GoodBody EXCEPT !.entry = e] : e \in {"absent", "empty"}}
    \cup {[GoodBody EXCEPT !.changes = e] : e \in {"absent", "empty"}}
    \cup {[GoodBody EXCEPT !.value = "absent"]}
    \cup {[GoodBody EXCEPT !.metadata = e, !.statuses = st] :
             e \in {"absent", "no_id"}, st \in BOOLEAN}
    \cup {[GoodBody EXCEPT !.metadata = "pnid_other", !.statuses = st,
                           !.messages = ms, !.msg = m] :
             st \in BOOLEAN, ms \in {"absent", "empty", "ok"},
             m \in {GoodMsg, [GoodMsg EXCEPT !.from = Absent]}}
    \cup {[GoodBody EXCEPT !.statuses = TRUE, !.messages = ms, !.msg = m] :
             ms \in {"absent", "empty", "ok"},
             m \in {GoodMsg, [GoodMsg EXCEPT !.type = Absent]}}
    \cup {[GoodBody EXCEPT !.messages = ms] : ms \in {"absent", "empty"}}

\* X-Hub-Signature-256 headers for a body: missing, without the 'sha256='
\* prefix, signed with a configured secret, signed with another secret, a
\* valid signature of a different body, 'sha256=' twice before a valid
\* digest, and a digest with a non-ASCII character.
Headers(body) ==
    {<< >>,
     << HexDigest(hmac_sha256("secretA", body)) >>,
     << Sha256Prefix, HexDigest(hmac_sha256("secretA", body)) >>,
     << Sha256Prefix, HexDigest(hmac_sha256("secretB", body)) >>,
     << Sha256Prefix, HexDigest(hmac_sha256("forged", body)) >>,
     << Sha256Prefix, HexDigest(hmac_sha256("secretA", [body EXCEPT !.object = ~@])) >>,
     << Sha256Prefix, Sha256Prefix, HexDigest(hmac_sha256("secretA", body)) >>,
     << Sha256Prefix, NonAsciiText >>}

\* The webhooks received: the good body under every header, every other body
\* unsigned and signed with the first secret.
Requests ==
    {[header |-> h, body |-> GoodBody] : h \in Headers(GoodBody)}
    \cup UNION {{[header |-> h, body |-> b] :
                   h \in {<< >>,
                          << Sha256Prefix, HexDigest(hmac_sha256("secretA", b)) >>}} :
                b \in Bodies}

\* What the backend holds for the sender when the webhook arrives.  Within
\* one request every read of the backend (check_user_exists,
\* get_last_thread_info) precedes the request's own writes (register_user,
\* create_thread, process_message), so the record is what its reads return.
Backends ==
    {[user_exists |-> u, thread_id |-> Absent, last_message_time |-> AbsentTime] :
        u \in BOOLEAN}
    \cup {[user_exists |-> TRUE, thread_id |-> ExistingThread, last_message_time |-> t] :
             t \in {AbsentTime, T0 - 60,
                    T0 - get_retention_time_seconds + 1,
                    T0 - get_retention_time_seconds,
                    T0 - get_retention_time_seconds - 1}}

\* The backend's data a webhook is run against: every record for the
\* webhooks carrying the good message's timestamp or a timestamp beyond the
\* age threshold under the headers of the first secret; for the others (the
\* timestamp and the signature are dealt with before the first backend call
\* and are not read after it) a registered user whose last thread is inside
\* the retention window.
BackendsFor(req) ==
    IF /\ req.body.msg.timestamp \in
            {GoodMsg.timestamp, T0 - WHATSAPP_MESSAGE_AGE_THRESHOLD_SECONDS - 1}
       /\ req.header # << Sha256Prefix, HexDigest(hmac_sha256("secretB", req.body)) >>
    THEN Backends
    ELSE {[user_exists |-> TRUE, thread_id |-> ExistingThread,
           last_message_time |-> T0 - 60]}

\* The seconds the awaited requests of a webhook may take in all: none, and
\* also MaxRequestSeconds for the webhooks of a local deployment that carry,
\* signed with the first secret, the good message, that message without an
\* id, the image or the text beyond the age threshold.
RequestTimesFor(st, req) ==
    IF /\ st.DEPLOYMENT_TYPE = "local"
       /\ req.header = << Sha256Prefix, HexDigest(hmac_sha256("secretA", req.body)) >>
       /\ req.body \in
            {[GoodBody EXCEPT !.msg = m] :
                m \in {GoodMsg,
                       [GoodMsg EXCEPT !.id = Absent],
                       [GoodMsg EXCEPT !.type = "image", !.type_value = "dict"],
                       [GoodMsg EXCEPT !.timestamp =
                                   T0 - WHATSAPP_MESSAGE_AGE_THRESHOLD_SECONDS - 1]}}
    THEN {0, MaxRequestSeconds}
    ELSE {0}

\* Texts process_message may return.
ResponseTexts ==
    {<< >>,
     <<"*", "a", "*">>,
     <<"a", "a", "a", "a", NL, NL, "a", "a", "a", "a">>,
     <<"a", "a", "a", "a", "a", "a", "a", "a", "a", "a", "a", "a", "a", "a", "a">>}

\* The fixed user-facing notices; each is shorter than the length limit and
\* is modelled as a text of one symbol.
Notice(kind) == << kind >>

\* handle_unsupported_message: the type, pluralised unless it ends in 's'.
UnsupportedNotice(incoming_msg_type) ==
    CASE incoming_msg_type = "errors" -> Notice("cant_process_errors")
      [] incoming_msg_type = "image" -> Notice("cant_process_images")
      [] OTHER -> Notice("cant_process_others")

(***************************************************************************)
(* State.                                                                  *)
(*   settings, request, backend   the configuration, the request and the   *)
(*            backend's data for the sender                                *)
(*   pc       position of the request: main_webhook up to its response,    *)
(*            then the background tasks, run one after the other           *)
(*   response the HTTP response of the webhook (NoResponse before)         *)
(*   manager  the WhatsAppConversationManager of the request (built FALSE  *)
(*            before construction) with the locals of handle_text_message  *)
(*   tasks    background_tasks: the scheduled calls, in order              *)
(*   loop     typing_indicator_task: "none", "sleeping" (in asyncio.sleep),*)
(*            "requesting" (awaiting its indicator request), "cancelled"   *)
(*            or "done"                                                    *)
(*   clock    seconds since the webhook arrived                            *)
(*   timer    due: the clock at which the pending indicator request or     *)
(*            sleep of the typing task returns (AbsentTime: none pending); *)
(*            left: the seconds the requests of this context may yet take  *)
(*   first_indicator_time  manager.first_indicator_time (AbsentTime: None) *)
(*   send     the send_message call in progress: next part and where to    *)
(*            continue afterwards                                          *)
(*   sends    history: every Messaging Client send_message call with the   *)
(*            parts handed over and the parts Meta accepted so far         *)
(*   calls    history: counters of the Backend / Messaging Client calls    *)
(*   pure     input and result of the pure functions checked on their own  *)
(***************************************************************************)
VARIABLES settings, request, backend, pc, response, manager, tasks, loop,
          clock, timer, first_indicator_time, send, sends, calls, pure

vars == <<settings, request, backend, pc, response, manager, tasks, loop,
          clock, timer, first_indicator_time, send, sends, calls, pure>>

NoManager ==
    [built |-> FALSE, user_phone_num |-> Absent, incoming_msg_type |-> Absent,
     incoming_msg_body |-> NoValue, message_id |-> Absent,
     message_unix_time |-> AbsentTime, thread_id |-> Absent, response |-> << >>]

NoCalls ==
    [parse |-> 0, check_user_exists |-> 0, register_user |-> 0,
     get_last_thread_info |-> 0, create_thread |-> 0, process_message |-> 0,
     process_thread |-> Absent, typing_before_process |-> 0,
     send_typing_indicator |-> 0, typing_after_response |-> 0,
     send_message |-> 0, faults |-> 0, registration_faults |-> 0,
     typing_failed |-> FALSE, register_outcome |-> Absent]

NoSend == [idx |-> 0, ret |-> "none"]
NoPure == [fn |-> "none"]

now == T0 + clock

\* The time an awaited request may take to return.
RequestSeconds == {d \in {0, MaxRequestSeconds} : d <= timer.left}

\* An awaited call of the handler returns d seconds after the previous step.
\* The handler and the typing task share one event loop: a sleep or an
\* indicator request of the task that is due earlier returns first.  due is
\* what the task awaits after the step.
Returns(d, due) ==
    /\ d \in RequestSeconds
    /\ loop \in {"sleeping", "requesting"} => clock + d <= timer.due
    /\ clock' = clock + d
    /\ timer' = [due |-> due, left |-> timer.left - d]

\* DEPLOYMENT_TYPE is read in one place, the comparison with "staging"
\* before the test of the dev prefix: "development" and "production", which
\* take the steps of "local" on every webhook, are run on the signed text
\* message without and with the prefix.
Init ==
    /\ settings \in Settings
    /\ request \in Requests
    /\ settings.DEPLOYMENT_TYPE \in {"development", "production"}
          => /\ request.header
                  = << Sha256Prefix, HexDigest(hmac_sha256("secretA", request.body)) >>
             /\ request.body \in
                  {[GoodBody EXCEPT !.msg = m] :
                      m \in {GoodMsg, [GoodMsg EXCEPT !.text = DevPrefix \o <<"h", "i">>]}}
    /\ backend \in BackendsFor(request)
    /\ pc = "verify"
    /\ response = NoResponse
    /\ manager = NoManager
    /\ tasks = << >>
    /\ loop = "none"
    /\ clock = 0
    /\ timer \in {[due |-> AbsentTime, left |-> l] :
                   l \in RequestTimesFor(settings, request)}
    /\ first_indicator_time = AbsentTime
    /\ send = NoSend
    /\ sends = << >>
    /\ calls = NoCalls
    /\ pure = NoPure


\* return create_response_for_meta(...) in main_webhook at the given time:
\* the response is sent and the background tasks start to run.
RespondAt(time, success, message, status_code, error_code, details) ==
    /\ response' = create_response_for_meta(settings.ALWAYS_RETURN_OK_TO_META,
                       success, message, status_code, error_code, details, time)
    /\ pc' = "background"

Respond(success, message, status_code, error_code, details) ==
    RespondAt(now, success, message, status_code, error_code, details)

\* An exception leaves main_webhook: the server answers 500 and the
\* background tasks of the request are never run.
Escape ==
    /\ response' = UnhandledException
    /\ pc' = "done"

Task(fn, arg) == [fn |-> fn, arg |-> arg]

HasPhone == manager.user_phone_num \notin {Absent, ""}
HasMessageId == manager.message_id \notin {Absent, ""}

(***************************************************************************)
(* main_webhook, synchronous part (app/main.py)                            *)
(***************************************************************************)
\* Depends(verify_meta_signature)
VerifySignature ==
    /\ pc = "verify"
    /\ CASE verify_meta_signature(request) = "ok" ->
               pc' = "parse" /\ UNCHANGED response
         [] verify_meta_signature(request) = "forbidden" ->
               pc' = "done" /\ response' = HttpException403
         [] OTHER -> Escape
    /\ UNCHANGED <<settings, request, backend, manager, tasks, loop, clock, timer,
                   first_indicator_time, send, sends, calls, pure>>

\* data = await request.json(); parse_meta_payload(data); the wrong-number
\* and status returns; construction of the conversation manager.
ParsePayload ==
    /\ pc = "parse"
    /\ IF request.body.json = "invalid"
       THEN Escape /\ UNCHANGED <<manager, calls>>
       ELSE LET d == parse_meta_payload(request.body)
            IN  /\ calls' = [calls EXCEPT !.parse = @ + 1]
                /\ IF d.error
                   THEN /\ Respond(FALSE, "Error processing webhook payload", 400,
                                   "INVALID_PAYLOAD", "error")
                        /\ UNCHANGED manager
                   ELSE IF ~d.is_target_business_number
                   THEN /\ Respond(TRUE, "Skipping, as this webhook is not intended for our WhatsApp business number",
                                   200, Absent, Absent)
                        /\ UNCHANGED manager
                   ELSE IF d.is_status
                   THEN /\ Respond(TRUE, "Status message processed (ignored)", 200,
                                   "STATUS_MESSAGE", Absent)
                        /\ UNCHANGED manager
                   ELSE /\ manager' = [built |-> TRUE,
                                       user_phone_num |-> d.user_whatsapp_number,
                                       incoming_msg_type |-> d.incoming_msg_type,
                                       incoming_msg_body |-> d.incoming_msg_body,
                                       message_id |-> d.message_id,
                                       message_unix_time |-> d.message_unix_time,
                                       thread_id |-> Absent, response |-> << >>]
                        /\ pc' = "maintenance"
                        /\ UNCHANGED response
    /\ UNCHANGED <<settings, request, backend, tasks, loop, clock, timer,
                   first_indicator_time, send, sends, pure>>

\* Mutation: the maintenance answer is given without scheduling the notice.
MaintenanceCheck_NoNotice ==
    /\ pc = "maintenance"
    /\ IF settings.WHATSAPP_UNDER_MAINTENANCE
       THEN /\ tasks' = tasks
            /\ Respond(FALSE, "Service under maintenance", 503, "MAINTENANCE_MODE", Absent)
       ELSE /\ pc' = "dev_filter"
            /\ UNCHANGED <<tasks, response>>
    /\ UNCHANGED <<settings, request, backend, manager, loop, clock, timer,
                   first_indicator_time, send, sends, calls, pure>>

\* if get_settings().WHATSAPP_UNDER_MAINTENANCE
MaintenanceCheck ==
    /\ pc = "maintenance"
    /\ IF settings.WHATSAPP_UNDER_MAINTENANCE
       THEN /\ tasks' = Append(tasks, Task("send_whatsapp_message", Notice("maintenance")))
            /\ Respond(FALSE, "Service under maintenance", 503, "MAINTENANCE_MODE", Absent)
       ELSE /\ pc' = "dev_filter"
            /\ UNCHANGED <<tasks, response>>
    /\ UNCHANGED <<settings, request, backend, manager, loop, clock, timer,
                   first_indicator_time, send, sends, calls, pure>>

\* text.startswith("!d ")
StartsWithDevPrefix(text) ==
    Len(text) >= Len(DevPrefix) /\ SubSeq(text, 1, Len(DevPrefix)) = DevPrefix

\* Mutation: the development filter is applied in every deployment.
DevFilter_EveryDeployment ==
    /\ pc = "dev_filter"
    /\ IF manager.incoming_msg_body.shape = "list"
       THEN Escape
       ELSE IF StartsWithDevPrefix(manager.incoming_msg_body.body)
       THEN Respond(FALSE, "Message filtered for local development", 202,
                    "DEV_FILTER", Absent)
       ELSE pc' = "typing" /\ UNCHANGED response
    /\ UNCHANGED <<settings, request, backend, manager, tasks, loop, clock, timer,
                   first_indicator_time, send, sends, calls, pure>>

\* DEPLOYMENT_TYPE == "staging" and incoming_msg_body.get("body", "").startswith("!d ")
\* (.get raises AttributeError when the body is not a dict).
DevFilter ==
    /\ pc = "dev_filter"
    /\ IF settings.DEPLOYMENT_TYPE = "staging"
       THEN IF manager.incoming_msg_body.shape = "list"
            THEN Escape
            ELSE IF StartsWithDevPrefix(manager.incoming_msg_body.body)
            THEN Respond(FALSE, "Message filtered for local development", 202,
                         "DEV_FILTER", Absent)
            ELSE pc' = "typing" /\ UNCHANGED response
       ELSE pc' = "typing" /\ UNCHANGED response
    /\ UNCHANGED <<settings, request, backend, manager, tasks, loop, clock, timer,
                   first_indicator_time, send, sends, calls, pure>>

\* background_tasks.add_task(send_typing_indicator_then_start_loop), then
\* the is_message_too_old return.
ScheduleTypingAndCheckAge ==
    /\ pc = "typing"
    /\ tasks' = Append(tasks, Task("send_typing_indicator_then_start_loop", << >>))
    /\ IF TimestampOutOfRange(manager.message_unix_time)
       THEN Escape
       ELSE IF is_message_too_old(manager.message_unix_time, now)
       THEN Respond(FALSE, "Message too old, notified user", 422, "MESSAGE_TOO_OLD", Absent)
       ELSE pc' = "check_user" /\ UNCHANGED response
    /\ UNCHANGED <<settings, request, backend, manager, loop, clock, timer,
                   first_indicator_time, send, sends, calls, pure>>

(***************************************************************************)
(* Conversation manager (services/whatsapp_conversation_manager.py)        *)
(***************************************************************************)
\* send_whatsapp_message(msg_body) up to the call of the Messaging Client:
\* return without a call when there is no recipient; otherwise split the
\* text and call send_message, which returns at once for an empty list.
\* c is the calls record to update; ret is where the caller continues.
StartSend(kind, msg_body, ret, c) ==
    IF ~HasPhone
    THEN /\ pc' = ret
         /\ calls' = c
         /\ UNCHANGED <<send, sends>>
    ELSE LET message_parts == split_message(msg_body)
         IN  /\ calls' = [c EXCEPT !.send_message = @ + 1]
             /\ sends' = Append(sends, [kind |-> kind, parts |-> message_parts,
                                        delivered |-> << >>])
             /\ IF message_parts = << >>
                THEN pc' = ret /\ UNCHANGED send
                ELSE pc' = "sending" /\ send' = [idx |-> 1, ret |-> ret]

\* Mutation: a rejected part is skipped and the loop goes on with the next.
SendChunk_ContinueAfterFailure ==
    /\ pc = "sending"
    /\ LET cur == sends[Len(sends)]
       IN  /\ \/ sends' = [sends EXCEPT ![Len(sends)].delivered =
                                            Append(@, cur.parts[send.idx])]
              \/ UNCHANGED sends
           /\ IF send.idx = Len(cur.parts)
              THEN pc' = send.ret /\ send' = NoSend
              ELSE pc' = pc /\ send' = [send EXCEPT !.idx = @ + 1]
    /\ \E d \in RequestSeconds : Returns(d, timer.due)
    /\ UNCHANGED <<settings, request, backend, response, manager, tasks, loop,
                   first_indicator_time, calls, pure>>

\* Mutation: a failed part makes send_whatsapp_message tell the user about
\* the failure with a message of its own.
SendChunk_NotifiesFailure ==
    /\ pc = "sending"
    /\ LET cur == sends[Len(sends)]
       IN  \/ /\ sends' = [sends EXCEPT ![Len(sends)].delivered =
                                            Append(@, cur.parts[send.idx])]
              /\ IF send.idx = Len(cur.parts)
                 THEN pc' = send.ret /\ send' = NoSend
                 ELSE pc' = pc /\ send' = [send EXCEPT !.idx = @ + 1]
           \/ /\ pc' = pc
              /\ send' = [send EXCEPT !.idx = 1]
              /\ sends' = Append(sends, [kind |-> "send_failed",
                                         parts |-> << Notice("send_failed") >>,
                                         delivered |-> << >>])
    /\ \E d \in RequestSeconds : Returns(d, timer.due)
    /\ UNCHANGED <<settings, request, backend, response, manager, tasks, loop,
                   first_indicator_time, calls, pure>>

\* One iteration of the `for i, part in enumerate(message_parts, 1)` loop of
\* MetaApiServiceReal.send_message: the awaited POST of the next part
\* returns, accepted, or it fails, the exception ends the loop and
\* send_whatsapp_message swallows it.
SendChunk ==
    /\ pc = "sending"
    /\ LET cur == sends[Len(sends)]
       IN  \/ /\ sends' = [sends EXCEPT ![Len(sends)].delivered =
                                            Append(@, cur.parts[send.idx])]
              /\ IF send.idx = Len(cur.parts)
                 THEN pc' = send.ret /\ send' = NoSend
                 ELSE pc' = pc /\ send' = [send EXCEPT !.idx = @ + 1]
           \/ /\ pc' = send.ret
              /\ send' = NoSend
              /\ UNCHANGED sends
    /\ \E d \in RequestSeconds : Returns(d, timer.due)
    /\ UNCHANGED <<settings, request, backend, response, manager, tasks, loop,
                   first_indicator_time, calls, pure>>


\* Mutation: a failed registration is acknowledged as a success.
RegistrationFailed_AsSuccess(time) ==
    /\ tasks' = Append(tasks, Task("send_whatsapp_message", Notice("register_failed")))
    /\ RespondAt(time, TRUE, "Message processed successfully", 200, Absent, Absent)


\* `if not user_found:` in main_webhook.
RegistrationFailed(time) ==
    /\ tasks' = Append(tasks, Task("send_whatsapp_message", Notice("register_failed")))
    /\ RespondAt(time, FALSE, "User registration failed", 500, "USER_REGISTRATION_FAILED", Absent)

BackendOutcomes == {"ok", "error", "exception"}
Fault(outcome) == IF outcome = "ok" THEN 0 ELSE 1


\* Mutation: a failed check_user_exists is taken as "the user does not exist".
CheckUserExists_ErrorAsAbsent ==
    /\ pc = "check_user"
    /\ IF ~HasPhone
       THEN RegistrationFailed(now) /\ UNCHANGED <<calls, clock, timer>>
       ELSE \E outcome \in BackendOutcomes, d \in RequestSeconds :
              /\ Returns(d, timer.due)
              /\ calls' = [calls EXCEPT !.check_user_exists = @ + 1,
                                        !.faults = @ + Fault(outcome),
                                        !.registration_faults = @ + Fault(outcome)]
              /\ pc' = IF outcome = "ok" /\ backend.user_exists
                       THEN "dispatch" ELSE "register"
              /\ UNCHANGED <<tasks, response>>
    /\ UNCHANGED <<settings, request, backend, manager, loop,
                   first_indicator_time, send, sends, pure>>


\* check_and_register_user up to the result of check_user_exists, which is
\* awaited.
CheckUserExists ==
    /\ pc = "check_user"
    /\ IF ~HasPhone
       THEN RegistrationFailed(now) /\ UNCHANGED <<calls, clock, timer>>
       ELSE \E outcome \in BackendOutcomes, d \in RequestSeconds :
              /\ Returns(d, timer.due)
              /\ calls' = [calls EXCEPT !.check_user_exists = @ + 1,
                                        !.faults = @ + Fault(outcome),
                                        !.registration_faults = @ + Fault(outcome)]
              /\ IF outcome = "ok"
                 THEN /\ pc' = IF backend.user_exists THEN "dispatch" ELSE "register"
                      /\ UNCHANGED <<tasks, response>>
                 ELSE RegistrationFailed(now + d)
    /\ UNCHANGED <<settings, request, backend, manager, loop,
                   first_indicator_time, send, sends, pure>>


\* Mutation: a UserRegistrationError is answered without the notice sent
\* from inside check_and_register_user.
RegisterUser_NoInlineNotice ==
    /\ pc = "register"
    /\ IF manager.incoming_msg_type = "text" /\ manager.incoming_msg_body.shape # "text_dict"
       THEN RegistrationFailed(now) /\ UNCHANGED <<send, sends, calls, clock, timer>>
       ELSE \E outcome \in BackendOutcomes, d \in RequestSeconds :
              LET c == [calls EXCEPT !.register_user = @ + 1,
                                     !.register_outcome = outcome,
                                     !.faults = @ + Fault(outcome),
                                     !.registration_faults = @ + Fault(outcome)]
              IN  /\ Returns(d, timer.due)
                  /\ IF outcome = "ok"
                     THEN /\ pc' = "dispatch"
                          /\ calls' = c
                          /\ UNCHANGED <<tasks, response, send, sends>>
                     ELSE /\ RegistrationFailed(now + d)
                          /\ calls' = c
                          /\ UNCHANGED <<send, sends>>
    /\ UNCHANGED <<settings, request, backend, manager, loop,
                   first_indicator_time, pure>>


\* check_and_register_user after check_user_exists returned false: the
\* language lookup (incoming_msg_body["body"] for a text message) and the
\* awaited register_user; UserRegistrationError sends a notice before
\* returning.
RegisterUser ==
    /\ pc = "register"
    /\ IF manager.incoming_msg_type = "text" /\ manager.incoming_msg_body.shape # "text_dict"
       THEN RegistrationFailed(now) /\ UNCHANGED <<send, sends, calls, clock, timer>>
       ELSE \E outcome \in BackendOutcomes, d \in RequestSeconds :
              LET c == [calls EXCEPT !.register_user = @ + 1,
                                     !.register_outcome = outcome,
                                     !.faults = @ + Fault(outcome),
                                     !.registration_faults = @ + Fault(outcome)]
              IN  /\ Returns(d, timer.due)
                  /\ CASE outcome = "ok" ->
                            /\ pc' = "dispatch"
                            /\ calls' = c
                            /\ UNCHANGED <<tasks, response, send, sends>>
                       [] outcome = "error" ->
                            /\ StartSend("register_failed_inline",
                                         Notice("register_failed_inline"), "reg_failed", c)
                            /\ UNCHANGED <<tasks, response>>
                       [] OTHER ->
                            /\ RegistrationFailed(now + d)
                            /\ calls' = c
                            /\ UNCHANGED <<send, sends>>
    /\ UNCHANGED <<settings, request, backend, manager, loop,
                   first_indicator_time, pure>>


\* check_and_register_user returned False after its notice was sent.
RegistrationFailedAfterNotice ==
    /\ pc = "reg_failed"
    /\ RegistrationFailed(now)
    /\ UNCHANGED <<settings, request, backend, manager, loop, clock, timer,
                   first_indicator_time, send, sends, calls, pure>>

\* Mutation: the handler is put in front of the typing start already scheduled.
Dispatch_HandlerFirst ==
    /\ pc = "dispatch"
    /\ IF manager.incoming_msg_type # "text"
       THEN /\ tasks' = <<Task("handle_unsupported_message", << >>)>> \o tasks
            /\ Respond(FALSE, "Unsupported message type handled", 415,
                       "UNSUPPORTED_MESSAGE_TYPE", Absent)
       ELSE /\ tasks' = <<Task("handle_text_message", << >>)>> \o tasks
            /\ Respond(TRUE, "Message processed successfully", 200, Absent, Absent)
    /\ UNCHANGED <<settings, request, backend, manager, loop, clock, timer,
                   first_indicator_time, send, sends, calls, pure>>

\* The last two branches of main_webhook.
Dispatch ==
    /\ pc = "dispatch"
    /\ IF manager.incoming_msg_type # "text"
       THEN /\ tasks' = Append(tasks, Task("handle_unsupported_message", << >>))
            /\ Respond(FALSE, "Unsupported message type handled", 415,
                       "UNSUPPORTED_MESSAGE_TYPE", Absent)
       ELSE /\ tasks' = Append(tasks, Task("handle_text_message", << >>))
            /\ Respond(TRUE, "Message processed successfully", 200, Absent, Absent)
    /\ UNCHANGED <<settings, request, backend, manager, loop, clock, timer,
                   first_indicator_time, send, sends, calls, pure>>

(***************************************************************************)
(* Background tasks: run in the order of add_task, each to its end.        *)
(***************************************************************************)
RunNextTask ==
    /\ pc = "background"
    /\ tasks # << >>
    /\ pc' = Head(tasks).fn
    /\ UNCHANGED <<settings, request, backend, response, manager, tasks, loop,
                   clock, timer, first_indicator_time, send, sends, calls, pure>>

FinishTasks ==
    /\ pc = "background"
    /\ tasks = << >>
    /\ pc' = "done"
    /\ UNCHANGED <<settings, request, backend, response, manager, tasks, loop,
                   clock, timer, first_indicator_time, send, sends, calls, pure>>

\* The scheduled send_whatsapp_message(text) task.
SendNoticeTask ==
    /\ pc = "send_whatsapp_message"
    /\ StartSend(Head(tasks).arg[1], Head(tasks).arg, "background", calls)
    /\ tasks' = Tail(tasks)
    /\ UNCHANGED <<settings, request, backend, response, manager, loop, clock, timer,
                   first_indicator_time, pure>>


\* A typing-indicator request is handed to the Messaging Client: the count,
\* and whether the response of this context had already been handed over.
TypingIndicatorSent(c) ==
    [c EXCEPT !.send_typing_indicator = @ + 1,
              !.typing_after_response =
                  @ + (IF \E i \in 1..Len(sends) : sends[i].kind = "response"
                       THEN 1 ELSE 0)]

\* The request is answered; an exception of the send is logged and swallowed
\* by _send_whatsapp_typing_indicator.
TypingIndicatorAnswered(c, accepted) ==
    [c EXCEPT !.typing_failed = @ \/ ~accepted]


\* send_typing_indicator_then_start_loop up to the first request: the return
\* without a phone or a message id, else first_indicator_time = time.time().
TypingStart ==
    /\ pc = "send_typing_indicator_then_start_loop"
    /\ first_indicator_time = AbsentTime
    /\ IF ~HasPhone \/ ~HasMessageId
       THEN /\ tasks' = Tail(tasks)
            /\ pc' = "background"
            /\ UNCHANGED first_indicator_time
       ELSE /\ first_indicator_time' = now
            /\ UNCHANGED <<tasks, pc>>
    /\ UNCHANGED <<settings, request, backend, response, manager, loop, clock,
                   timer, send, sends, calls, pure>>

\* await self._send_whatsapp_typing_indicator(): the first request is handed
\* to the Messaging Client, which answers after d seconds.
SendTypingIndicator ==
    /\ pc = "send_typing_indicator_then_start_loop"
    /\ first_indicator_time # AbsentTime
    /\ timer.due = AbsentTime
    /\ calls' = TypingIndicatorSent(calls)
    /\ \E d \in RequestSeconds :
         timer' = [due |-> clock + d, left |-> timer.left - d]
    /\ UNCHANGED <<settings, request, backend, pc, response, manager, tasks,
                   loop, clock, first_indicator_time, send, sends, pure>>

\* The first request is answered and
\* asyncio.create_task(self._typing_indicator_loop()): the task exists and
\* is in its first sleep; the background task returns.
StartLoop ==
    /\ pc = "send_typing_indicator_then_start_loop"
    /\ timer.due # AbsentTime
    /\ clock' = timer.due
    /\ (\E accepted \in BOOLEAN : calls' = TypingIndicatorAnswered(calls, accepted))
    /\ loop' = "sleeping"
    /\ timer' = [timer EXCEPT !.due = timer.due + INDICATOR_INTERVAL_SECONDS]
    /\ tasks' = Tail(tasks)
    /\ pc' = "background"
    /\ UNCHANGED <<settings, request, backend, response, manager,
                   first_indicator_time, send, sends, pure>>


\* Mutation: the indicator is sent before the elapsed time is looked at.
LoopWake_SendsBeforeCheck ==
    /\ loop = "sleeping"
    /\ clock' = timer.due
    /\ calls' = TypingIndicatorSent(calls)
    /\ LET elapsed_time == (T0 + timer.due) - first_indicator_time
       IN  IF elapsed_time > MAX_DURATION_SECONDS
           THEN /\ loop' = "done"
                /\ timer' = [timer EXCEPT !.due = AbsentTime]
           ELSE /\ loop' = "requesting"
                /\ \E d \in RequestSeconds :
                     timer' = [due |-> timer.due + d, left |-> timer.left - d]
    /\ UNCHANGED <<settings, request, backend, pc, response, manager, tasks,
                   first_indicator_time, send, sends, pure>>




\* Mutation: the loop has no maximum duration; past 300 s it goes on sleeping.
LoopWake_NoCap ==
    /\ loop = "sleeping"
    /\ LET elapsed_time == (T0 + timer.due) - first_indicator_time
       IN  IF elapsed_time > MAX_DURATION_SECONDS
           THEN UNCHANGED <<loop, calls, clock, timer>>
           ELSE /\ clock' = timer.due
                /\ loop' = "requesting"
                /\ calls' = TypingIndicatorSent(calls)
                /\ \E d \in RequestSeconds :
                     timer' = [due |-> timer.due + d, left |-> timer.left - d]
    /\ UNCHANGED <<settings, request, backend, pc, response, manager, tasks,
                   first_indicator_time, send, sends, pure>>


\* _typing_indicator_loop: asyncio.sleep(26) returns; the loop stops when
\* more than 300 s have passed since first_indicator_time and otherwise
\* hands another indicator request to the Messaging Client, which answers
\* after d seconds.
LoopWake ==
    /\ loop = "sleeping"
    /\ clock' = timer.due
    /\ LET elapsed_time == (T0 + timer.due) - first_indicator_time
       IN  IF elapsed_time > MAX_DURATION_SECONDS
           THEN /\ loop' = "done"
                /\ timer' = [timer EXCEPT !.due = AbsentTime]
                /\ UNCHANGED calls
           ELSE /\ loop' = "requesting"
                /\ calls' = TypingIndicatorSent(calls)
                /\ \E d \in RequestSeconds :
                     timer' = [due |-> timer.due + d, left |-> timer.left - d]
    /\ UNCHANGED <<settings, request, backend, pc, response, manager, tasks,
                   first_indicator_time, send, sends, pure>>

\* Mutation: a failed indicator send inside the loop ends the loop.
LoopIndicatorAnswered_StopsOnFailure ==
    /\ loop = "requesting"
    /\ clock' = timer.due
    /\ \E accepted \in BOOLEAN :
         /\ calls' = TypingIndicatorAnswered(calls, accepted)
         /\ loop' = IF accepted THEN "sleeping" ELSE "done"
         /\ timer' = [timer EXCEPT !.due = IF accepted
                                           THEN timer.due + INDICATOR_INTERVAL_SECONDS
                                           ELSE AbsentTime]
    /\ UNCHANGED <<settings, request, backend, pc, response, manager, tasks,
                   first_indicator_time, send, sends, pure>>

\* _typing_indicator_loop: the awaited indicator request of the loop is
\* answered (a failure is swallowed) and the loop sleeps again.
LoopIndicatorAnswered ==
    /\ loop = "requesting"
    /\ clock' = timer.due
    /\ (\E accepted \in BOOLEAN : calls' = TypingIndicatorAnswered(calls, accepted))
    /\ loop' = "sleeping"
    /\ timer' = [timer EXCEPT !.due = timer.due + INDICATOR_INTERVAL_SECONDS]
    /\ UNCHANGED <<settings, request, backend, pc, response, manager, tasks,
                   first_indicator_time, send, sends, pure>>

\* Mutation: the cancellation is left out.
CancelledLoop_NotCancelled == loop


\* typing_indicator_task.cancel() when the task exists and is not done: the
\* task ends in its sleep or in its indicator request.
CancelledLoop == IF loop \in {"sleeping", "requesting"} THEN "cancelled" ELSE loop

\* What the typing task awaits when it is in state l after the step.
DueOf(l) == IF l \in {"sleeping", "requesting"} THEN timer.due ELSE AbsentTime

\* handle_unsupported_message
HandleUnsupported ==
    /\ pc = "handle_unsupported_message"
    /\ IF ~HasPhone \/ manager.incoming_msg_type \in {Absent, ""}
       THEN pc' = "background" /\ UNCHANGED <<send, sends, calls>>
       ELSE StartSend("unsupported", UnsupportedNotice(manager.incoming_msg_type),
                      "background", calls)
    /\ tasks' = Tail(tasks)
    /\ UNCHANGED <<settings, request, backend, response, manager, loop, clock, timer,
                   first_indicator_time, pure>>


\* handle_text_message up to the retention decision: the guard on the
\* phone, incoming_msg_body["body"], the awaited get_last_thread_info,
\* calculate_time_passed at its return and
\* `thread_id is None or passed_time > allowed_time`.
GetLastThreadInfo ==
    /\ pc = "handle_text_message"
    /\ tasks' = Tail(tasks)
    /\ IF ~HasPhone
       THEN pc' = "background" /\ UNCHANGED <<manager, send, sends, calls, clock, timer>>
       ELSE IF manager.incoming_msg_body.shape # "text_dict"
       THEN /\ StartSend("unexpected_error", Notice("unexpected_error"),
                         "cancel_after_failure", calls)
            /\ UNCHANGED <<manager, clock, timer>>
       ELSE \E outcome \in BackendOutcomes, d \in RequestSeconds :
              LET c == [calls EXCEPT !.get_last_thread_info = @ + 1,
                                     !.faults = @ + Fault(outcome)]
                  thread_id == backend.thread_id
                  passed_time == calculate_time_passed(backend.last_message_time, now + d)
                  allowed_time == get_retention_time_seconds
              IN  /\ Returns(d, timer.due)
                  /\ CASE outcome = "ok" ->
                            /\ manager' = [manager EXCEPT !.thread_id = thread_id]
                            /\ pc' = IF thread_id = Absent
                                        \/ ExceedsRetention(passed_time, allowed_time)
                                     THEN "create_thread" ELSE "process_message"
                            /\ calls' = c
                            /\ UNCHANGED <<send, sends>>
                       [] outcome = "error" ->
                            /\ StartSend("thread_info_failed", Notice("thread_info_failed"),
                                         "background", c)
                            /\ UNCHANGED manager
                       [] OTHER ->
                            /\ StartSend("unexpected_error", Notice("unexpected_error"),
                                         "cancel_after_failure", c)
                            /\ UNCHANGED manager
    /\ UNCHANGED <<settings, request, backend, response, loop,
                   first_indicator_time, pure>>

\* Mutation: after the notice of a failed create_thread the handler goes on
\* to process_message.
CreateThread_GoesOn ==
    /\ pc = "create_thread"
    /\ \E outcome \in BackendOutcomes, d \in RequestSeconds :
         LET c == [calls EXCEPT !.create_thread = @ + 1,
                                !.faults = @ + Fault(outcome)]
         IN  /\ Returns(d, timer.due)
             /\ CASE outcome = "ok" ->
                       /\ manager' = [manager EXCEPT !.thread_id = NewThread]
                       /\ pc' = "process_message"
                       /\ calls' = c
                       /\ UNCHANGED <<send, sends>>
                  [] outcome = "error" ->
                       /\ StartSend("thread_creation_failed",
                                    Notice("thread_creation_failed"), "process_message", c)
                       /\ UNCHANGED manager
                  [] OTHER ->
                       /\ StartSend("unexpected_error", Notice("unexpected_error"),
                                    "cancel_after_failure", c)
                       /\ UNCHANGED manager
    /\ UNCHANGED <<settings, request, backend, response, tasks, loop,
                   first_indicator_time, pure>>

\* The awaited create_thread and its ThreadCreationError handler.
CreateThread ==
    /\ pc = "create_thread"
    /\ \E outcome \in BackendOutcomes, d \in RequestSeconds :
         LET c == [calls EXCEPT !.create_thread = @ + 1,
                                !.faults = @ + Fault(outcome)]
         IN  /\ Returns(d, timer.due)
             /\ CASE outcome = "ok" ->
                       /\ manager' = [manager EXCEPT !.thread_id = NewThread]
                       /\ pc' = "process_message"
                       /\ calls' = c
                       /\ UNCHANGED <<send, sends>>
                  [] outcome = "error" ->
                       /\ StartSend("thread_creation_failed",
                                    Notice("thread_creation_failed"), "background", c)
                       /\ UNCHANGED manager
                  [] OTHER ->
                       /\ StartSend("unexpected_error", Notice("unexpected_error"),
                                    "cancel_after_failure", c)
                       /\ UNCHANGED manager
    /\ UNCHANGED <<settings, request, backend, response, tasks, loop,
                   first_indicator_time, pure>>

\* await self.ansari_client.process_message(...): the call is issued.
ProcessMessageCall ==
    /\ pc = "process_message"
    /\ calls' = [calls EXCEPT !.process_message = @ + 1,
                              !.process_thread = manager.thread_id,
                              !.typing_before_process = calls.send_typing_indicator]
    /\ pc' = "awaiting_process_message"
    /\ UNCHANGED <<settings, request, backend, response, manager, tasks, loop,
                   clock, timer, first_indicator_time, send, sends, pure>>


\* Mutation: an empty response of the backend ends the handler without any
\* message to the user.
ProcessMessageReturn_SilentOnEmpty ==
    /\ pc = "awaiting_process_message"
    /\ \E d \in RequestSeconds :
         \/ \E r \in ResponseTexts :
              /\ Returns(d, DueOf(CancelledLoop))
              /\ loop' = CancelledLoop
              /\ manager' = [manager EXCEPT !.response = r]
              /\ IF r = << >> \/ format_for_whatsapp(r) = << >>
                 THEN pc' = "background" /\ UNCHANGED <<send, sends, calls>>
                 ELSE StartSend("response", format_for_whatsapp(r), "background", calls)
         \/ /\ Returns(d, timer.due)
            /\ StartSend("processing_failed", Notice("processing_failed"),
                         "cancel_after_failure", [calls EXCEPT !.faults = @ + 1])
            /\ UNCHANGED <<loop, manager>>
    /\ UNCHANGED <<settings, request, backend, response, tasks,
                   first_indicator_time, pure>>


\* The awaited process_message returns a text: the typing task is
\* cancelled, then the empty-response check, format_for_whatsapp, the
\* empty-output check and send_whatsapp_message(response).  Or it raises
\* MessageProcessingError: the failure notice is sent first and the task is
\* cancelled afterwards.
ProcessMessageReturn ==
    /\ pc = "awaiting_process_message"
    /\ \E d \in RequestSeconds :
         \/ \E r \in ResponseTexts :
              /\ Returns(d, DueOf(CancelledLoop))
              /\ loop' = CancelledLoop
              /\ manager' = [manager EXCEPT !.response = r]
              /\ IF r = << >>
                 THEN StartSend("empty_response", Notice("empty_response"),
                                "background", calls)
                 ELSE LET formatted_response == format_for_whatsapp(r)
                      IN  IF formatted_response = << >>
                          THEN StartSend("empty_formatted", Notice("empty_formatted"),
                                         "background", calls)
                          ELSE StartSend("response", formatted_response, "background", calls)
         \/ /\ Returns(d, timer.due)
            /\ StartSend("processing_failed", Notice("processing_failed"),
                         "cancel_after_failure", [calls EXCEPT !.faults = @ + 1])
            /\ UNCHANGED <<loop, manager>>
    /\ UNCHANGED <<settings, request, backend, response, tasks,
                   first_indicator_time, pure>>


\* Mutation: the handler returns after a failure without cancelling the loop.
CancelAfterFailure_LoopKept ==
    /\ pc = "cancel_after_failure"
    /\ loop' = loop
    /\ timer' = timer
    /\ pc' = "background"
    /\ UNCHANGED <<settings, request, backend, response, manager, tasks, clock,
                   first_indicator_time, send, sends, calls, pure>>


\* "Cancel typing indicator if running" after a failure notice; the handler
\* then returns.
CancelAfterFailure ==
    /\ pc = "cancel_after_failure"
    /\ loop' = CancelledLoop
    /\ timer' = [timer EXCEPT !.due = DueOf(CancelledLoop)]
    /\ pc' = "background"
    /\ UNCHANGED <<settings, request, backend, response, manager, tasks, clock,
                   first_indicator_time, send, sends, calls, pure>>

Next ==
    \/ VerifySignature
    \/ ParsePayload
    \/ MaintenanceCheck
    \/ DevFilter
    \/ ScheduleTypingAndCheckAge
    \/ CheckUserExists
    \/ RegisterUser
    \/ RegistrationFailedAfterNotice
    \/ Dispatch
    \/ RunNextTask
    \/ FinishTasks
    \/ SendNoticeTask
    \/ TypingStart
    \/ SendTypingIndicator
    \/ StartLoop
    \/ LoopWake
    \/ LoopIndicatorAnswered
    \/ HandleUnsupported
    \/ GetLastThreadInfo
    \/ CreateThread
    \/ ProcessMessageCall
    \/ ProcessMessageReturn
    \/ CancelAfterFailure
    \/ SendChunk

Spec == Init /\ [][Next]_vars

(***************************************************************************)
(* The pure functions on their own.  The request machine stands still      *)
(* (pc = "idle"); pure holds the input drawn by Init and, after the one    *)
(* step, the result the function computes for it.                          *)
(***************************************************************************)
PureIdle ==
    /\ settings = [ALWAYS_RETURN_OK_TO_META |-> TRUE,
                   WHATSAPP_UNDER_MAINTENANCE |-> FALSE,
                   DEPLOYMENT_TYPE |-> "production"]
    /\ request = [header |-> << >>, body |-> GoodBody]
    /\ backend = [user_exists |-> FALSE, thread_id |-> Absent,
                  last_message_time |-> AbsentTime]
    /\ pc = "idle"
    /\ response = NoResponse
    /\ manager = NoManager
    /\ tasks = << >>
    /\ loop = "none"
    /\ clock = 0
    /\ timer = [due |-> AbsentTime, left |-> 0]
    /\ first_indicator_time = AbsentTime
    /\ send = NoSend
    /\ sends = << >>
    /\ calls = NoCalls

\* Arguments of create_response_for_meta: the calls main_webhook makes and
\* the other values the parameters admit.
InitResponse ==
    /\ PureIdle
    /\ pure \in [fn : {"create_response_for_meta"}, stage : {"input"},
                 success : BOOLEAN,
                 message : {"OK", "Error processing webhook payload",
                            "Service under maintenance"},
                 status_code : {200, 202, 400, 415, 422, 500, 503},
                 error_code : {Absent, "", "INVALID_PAYLOAD", "MAINTENANCE_MODE"},
                 details : {Absent, "", "error"},
                 on : {NoResponse}, off : {NoResponse}]

\* The same call under ALWAYS_RETURN_OK_TO_META = True (on) and False (off).
BuildResponse ==
    /\ pure.fn = "create_response_for_meta"
    /\ pure.stage = "input"
    /\ pure' = [pure EXCEPT
                  !.stage = "output",
                  !.on = create_response_for_meta(TRUE, pure.success, pure.message,
                             pure.status_code, pure.error_code, pure.details, now),
                  !.off = create_response_for_meta(FALSE, pure.success, pure.message,
                             pure.status_code, pure.error_code, pure.details, now)]
    /\ UNCHANGED <<settings, request, backend, pc, response, manager, tasks, loop,
                   clock, timer, first_indicator_time, send, sends, calls>>

SpecResponse == InitResponse /\ [][BuildResponse]_vars

\* Texts for the splitter: up to MaxTokens pieces, each a character of the
\* alphabet, a blank-line separator, a header, a bold span or a short word.
Texts ==
    {Concat(ts) :
       ts \in UNION {[1..k -> {<<"a">>, <<STAR>>, <<UNDER>>, <<NL>>, <<NL, NL>>,
                               <<STAR, UNDER, "a", UNDER, STAR>>,
                               <<STAR, "a", STAR>>, <<"a", "a", "a", "a">>}] :
                       k \in 0..MaxTokens}}

InitSplit ==
    /\ PureIdle
    /\ pure \in {[fn |-> "split_message", stage |-> "input", text |-> t,
                  chunks |-> << >>] : t \in Texts}

SplitMessage ==
    /\ pure.fn = "split_message"
    /\ pure.stage = "input"
    /\ pure' = [pure EXCEPT !.stage = "output", !.chunks = split_message(pure.text)]
    /\ UNCHANGED <<settings, request, backend, pc, response, manager, tasks, loop,
                   clock, timer, first_indicator_time, send, sends, calls>>

SpecSplit == InitSplit /\ [][SplitMessage]_vars

(***************************************************************************)
(* is_message_too_old on its own (utils/time_utils.py)                     *)
(***************************************************************************)
MaxLateness == 5
\* Times of the call and timestamps around the threshold, with the absent
\* timestamp, the timestamp 0 and a timestamp outside the platform's range.
AgeTimestamps(current_time) ==
    {AbsentTime, HugeTime, 0, 1, current_time}
    \cup {current_time - WHATSAPP_MESSAGE_AGE_THRESHOLD_SECONDS + d : d \in -3..3}

InitAge ==
    /\ PureIdle
    /\ pure \in {[fn |-> "is_message_too_old", stage |-> "input",
                  message_unix_time |-> t, now |-> n, result |-> "none"] :
                     n \in {T0 + k : k \in 0..MaxLateness}, t \in AgeTimestamps(T0)}

\* One call: the value returned, or the exception that leaves the function.
IsMessageTooOld ==
    /\ pure.fn = "is_message_too_old"
    /\ pure.stage = "input"
    /\ pure' = [pure EXCEPT
                  !.stage = "output",
                  !.result = IF TimestampOutOfRange(pure.message_unix_time)
                             THEN "raises"
                             ELSE IF is_message_too_old(pure.message_unix_time, pure.now)
                             THEN "true" ELSE "false"]
    /\ UNCHANGED <<settings, request, backend, pc, response, manager, tasks, loop,
                   clock, timer, first_indicator_time, send, sends, calls>>

SpecAge == InitAge /\ [][IsMessageTooOld]_vars

(***************************************************************************)
(* Signature verification on its own, under every configuration of the     *)
(* secrets (utils/whatsapp_webhook_utils.py)                                *)
(***************************************************************************)
MaxSecrets == 4

\* META_ANSARI_APP_SECRET after split(','): one secret or several.
SecretLists ==
    UNION {[1..k -> {"secretA", "secretB", "secretC"}] : k \in 1..MaxSecrets}

SignedBodies == {GoodBody, [GoodBody EXCEPT !.object = ~@]}

InitVerify ==
    /\ PureIdle
    /\ pure \in {[fn |-> "verify_meta_signature", stage |-> "input",
                  app_secrets |-> ss, header |-> h, body |-> b,
                  result |-> "none"] :
                     ss \in SecretLists,
                     h \in UNION {Headers(body) : body \in SignedBodies},
                     b \in SignedBodies}

\* One run of the dependency: "ok", "forbidden" (HTTPException 403) or
\* "type_error" (the exception of hmac.compare_digest).
VerifyMetaSignature ==
    /\ pure.fn = "verify_meta_signature"
    /\ pure.stage = "input"
    /\ pure' = [pure EXCEPT
                  !.stage = "output",
                  !.result = verify_signature(pure.app_secrets,
                                 [header |-> pure.header, body |-> pure.body])]
    /\ UNCHANGED <<settings, request, backend, pc, response, manager, tasks, loop,
                   clock, timer, first_indicator_time, send, sends, calls>>

SpecVerify == InitVerify /\ [][VerifyMetaSignature]_vars

(***************************************************************************)
(* GET /whatsapp/v2: the verification handshake (app/main.py)              *)
(***************************************************************************)
META_WEBHOOK_VERIFY_TOKEN == "verify_token_ours"

HttpException(status_code, detail) ==
    [kind |-> "http_exception", status_code |-> status_code, body |-> detail]

\* HTMLResponse(content): status 200; the content None is rendered as the
\* empty body.
HTMLResponse(content) ==
    [kind |-> "html", status_code |-> 200,
     body |-> IF content = Absent THEN "" ELSE content]

\* Python truthiness of query_params.get(...): None and "" are false.
Truthy(v) == v \notin {Absent, ""}

\* Mutation: hub.mode is not compared with "subscribe".
verification_webhook_ModeIgnored(mode, verify_token, challenge) ==
    IF Truthy(mode) /\ Truthy(verify_token)
    THEN IF verify_token = META_WEBHOOK_VERIFY_TOKEN
         THEN HTMLResponse(challenge)
         ELSE HttpException(403, "Forbidden")
    ELSE HttpException(400, "Bad Request")

verification_webhook(mode, verify_token, challenge) ==
    IF Truthy(mode) /\ Truthy(verify_token)
    THEN IF mode = "subscribe" /\ verify_token = META_WEBHOOK_VERIFY_TOKEN
         THEN HTMLResponse(challenge)
         ELSE HttpException(403, "Forbidden")
    ELSE HttpException(400, "Bad Request")

InitHandshake ==
    /\ PureIdle
    /\ pure \in {[fn |-> "verification_webhook", stage |-> "input",
                  mode |-> m, verify_token |-> t, challenge |-> c,
                  result |-> NoResponse] :
                     m \in {Absent, "", "subscribe", "Subscribe", "unsubscribe"},
                     t \in {Absent, "", META_WEBHOOK_VERIFY_TOKEN, "verify_token_other"},
                     c \in {Absent, "", "1158201444", "challenge_2"}}

VerificationWebhook ==
    /\ pure.fn = "verification_webhook"
    /\ pure.stage = "input"
    /\ pure' = [pure EXCEPT
                  !.stage = "output",
                  !.result = verification_webhook(pure.mode, pure.verify_token,
                                                  pure.challenge)]
    /\ UNCHANGED <<settings, request, backend, pc, response, manager, tasks, loop,
                   clock, timer, first_indicator_time, send, sends, calls>>

SpecHandshake == InitHandshake /\ [][VerificationWebhook]_vars

(***************************************************************************)
(* Properties.                                                             *)
(***************************************************************************)
\* The X-Hub-Signature-256 header is 'sha256=' followed by the HMAC of this
\* body under one of the configured secrets.
ValidlySigned ==
    \E i \in 1..Len(META_ANSARI_APP_SECRET) :
        request.header = << Sha256Prefix,
                            HexDigest(hmac_sha256(META_ANSARI_APP_SECRET[i], request.body)) >>

\* No Backend Client and no Messaging Client call has been made, no
\* background task is scheduled and no typing loop exists.
NoClientActivity ==
    /\ [calls EXCEPT !.parse = 0] = NoCalls
    /\ sends = << >>
    /\ tasks = << >>
    /\ loop = "none"

\* The webhook has returned its response.
Answered == response.kind # "none"

\* C1: a POST whose signature header is missing, lacks the 'sha256=' prefix
\* or does not match the body under a configured secret is answered 403 (not
\* rewritten to 200 by ALWAYS_RETURN_OK_TO_META); its payload is never
\* parsed, no conversation manager is built, no background task is
\* scheduled and no client call is made.
C1_BadSignatureRejected ==
    ~ValidlySigned =>
        /\ pc \in {"verify", "done"}
        /\ pc = "done" => response = HttpException403 /\ response.status_code = 403
        /\ calls = NoCalls
        /\ ~manager.built
        /\ NoClientActivity

C1_Witness ==
    /\ ~ValidlySigned
    /\ request.header # << >> /\ Head(request.header) = Sha256Prefix
    /\ settings.ALWAYS_RETURN_OK_TO_META
    /\ pc = "done"
    /\ response.status_code = 403

\* The happy path's request: a validly signed, well-formed, recent text
\* message with an id, for our number, outside maintenance and the staging
\* filter, from a registered user whose last thread is inside the retention
\* window, with no fault of the backend so far.
C2_HappyRequest ==
    /\ ValidlySigned
    /\ request.body.json = "dict" /\ request.body.object
    /\ request.body.entry = "ok" /\ request.body.changes = "ok"
    /\ request.body.value = "ok"
    /\ request.body.metadata = META_BUSINESS_PHONE_NUMBER_ID
    /\ ~request.body.statuses
    /\ request.body.messages = "ok"
    /\ request.body.msg.from = SenderPhone
    /\ request.body.msg.id = MessageId
    /\ request.body.msg.type = "text" /\ request.body.msg.type_value = "text_dict"
    /\ request.body.msg.timestamp > 0
    /\ T0 - request.body.msg.timestamp <= WHATSAPP_MESSAGE_AGE_THRESHOLD_SECONDS
    /\ ~settings.WHATSAPP_UNDER_MAINTENANCE
    /\ ~(settings.DEPLOYMENT_TYPE = "staging"
         /\ Len(request.body.msg.text) >= 3
         /\ SubSeq(request.body.msg.text, 1, 3) = DevPrefix)
    /\ backend.user_exists
    /\ backend.thread_id # Absent
    /\ backend.last_message_time # AbsentTime
    /\ now - backend.last_message_time <= WHATSAPP_CHAT_RETENTION_HOURS * 3600
    /\ calls.faults = 0

\* C2: on the happy path register_user and create_thread are never called;
\* process_message is called exactly once, with the existing thread id and
\* after the first typing indicator was attempted; the typing loop is
\* cancelled once process_message has returned; the formatted and split
\* response is handed to send_message in exactly one call; the webhook
\* answers 200 with success = true.
C2_HappyPath ==
    C2_HappyRequest =>
        /\ calls.register_user = 0
        /\ calls.create_thread = 0
        /\ calls.process_message <= 1
        /\ calls.process_message = 1 =>
              /\ calls.process_thread = backend.thread_id
              /\ calls.typing_before_process >= 1
        /\ manager.response # << >> => loop \notin {"sleeping", "requesting"}
        /\ pc = "done" => Answered
        /\ Answered =>
              /\ response.kind = "json"
              /\ response.status_code = 200
              /\ response.body.success
        /\ (pc = "done" /\ manager.response # << >>) =>
              /\ calls.process_message = 1
              /\ calls.send_message = 1
              /\ Len(sends) = 1
              /\ sends[1].kind = "response"
              /\ sends[1].parts = split_message(format_for_whatsapp(manager.response))

C2_Witness ==
    /\ C2_HappyRequest
    /\ pc = "done"
    /\ loop = "cancelled"
    /\ calls.send_typing_indicator >= 2
    /\ Len(sends) = 1
    /\ Len(sends[1].parts) >= 2
    /\ sends[1].delivered = sends[1].parts

ResponseHandedOver == \E i \in 1..Len(sends) : sends[i].kind = "response"

\* C3: on the success path the typing task is cancelled after process_message
\* returns and before the first chunk of the response is sent: no
\* cancellation has happened while process_message is still to return, the
\* loop is not running once the response has been handed to send_message,
\* and no typing indicator is sent from then on.
C3_CancelBeforeResponse ==
    /\ pc \in {"process_message", "awaiting_process_message"} => loop # "cancelled"
    /\ ResponseHandedOver => loop \notin {"sleeping", "requesting"}
    /\ calls.typing_after_response = 0

C3_Witness ==
    /\ ResponseHandedOver
    /\ pc = "sending"
    /\ sends[Len(sends)].delivered = << >>
    /\ loop = "cancelled"
    /\ calls.send_typing_indicator >= 3

\* The payload reaches value.metadata.phone_number_id.
C4_Addressed ==
    /\ request.body.json = "dict" /\ request.body.object
    /\ request.body.entry = "ok" /\ request.body.changes = "ok"
    /\ request.body.value = "ok"
    /\ request.body.metadata \notin {"absent", "no_id"}

C4_WrongNumber == C4_Addressed /\ request.body.metadata # META_BUSINESS_PHONE_NUMBER_ID

C4_StatusUpdate ==
    /\ C4_Addressed
    /\ request.body.metadata = META_BUSINESS_PHONE_NUMBER_ID
    /\ request.body.statuses

\* C4: a signed payload for another phone_number_id, or one with
\* value.statuses, builds no manager, schedules no task and makes no client
\* call, and is answered 200 with success = true; for another number the
\* message is the 'not intended for our WhatsApp business number' one, also
\* when the payload has statuses or defective messages.
C4_SilentNoOp ==
    (ValidlySigned /\ (C4_WrongNumber \/ C4_StatusUpdate)) =>
        /\ ~manager.built
        /\ NoClientActivity
        /\ pc = "done" => Answered
        /\ Answered =>
              /\ response.kind = "json"
              /\ response.status_code = 200
              /\ response.body.success
              /\ C4_WrongNumber =>
                    response.body.message =
                        "Skipping, as this webhook is not intended for our WhatsApp business number"

C4_Witness ==
    /\ ValidlySigned
    /\ C4_WrongNumber
    /\ request.body.statuses
    /\ request.body.messages = "empty"
    /\ ~settings.ALWAYS_RETURN_OK_TO_META
    /\ pc = "done"
    /\ response.body.success

\* C5: with ALWAYS_RETURN_OK_TO_META on, every POST that passed signature
\* verification is answered 200 with a JSON body, whatever the body, the
\* deployment and the backend do; no exception leaves main_webhook.
C5_AlwaysOkToMeta ==
    (settings.ALWAYS_RETURN_OK_TO_META /\ ValidlySigned /\ pc = "done") =>
        /\ response.kind = "json"
        /\ response.status_code = 200

\* Parsing fails for the payload: a part of the envelope, metadata or
\* phone_number_id is missing, or, for our number and without statuses,
\* messages is missing or empty or the message lacks 'from' or 'type'.
C6_Unparseable ==
    /\ request.body.json = "dict"
    /\ \/ ~request.body.object
       \/ request.body.entry # "ok"
       \/ request.body.changes # "ok"
       \/ request.body.value # "ok"
       \/ request.body.metadata \in {"absent", "no_id"}
       \/ /\ request.body.metadata = META_BUSINESS_PHONE_NUMBER_ID
          /\ ~request.body.statuses
          /\ \/ request.body.messages \in {"absent", "empty"}
             \/ request.body.msg.from = Absent
             \/ request.body.msg.type = Absent

\* C6: a signed payload for which parsing fails is answered success = false
\* with error_code INVALID_PAYLOAD and status 400 (200 when
\* ALWAYS_RETURN_OK_TO_META is on); no manager is built, no task is
\* scheduled and no client call is made.
C6_InvalidPayload ==
    (ValidlySigned /\ C6_Unparseable) =>
        /\ ~manager.built
        /\ NoClientActivity
        /\ pc = "done" => Answered
        /\ Answered =>
              /\ response.kind = "json"
              /\ ~response.body.success
              /\ response.body.error_code = "INVALID_PAYLOAD"
              /\ response.status_code =
                    IF settings.ALWAYS_RETURN_OK_TO_META THEN 200 ELSE 400

C6_Witness ==
    /\ ValidlySigned
    /\ request.body.metadata = META_BUSINESS_PHONE_NUMBER_ID
    /\ ~request.body.statuses
    /\ request.body.messages = "ok"
    /\ request.body.msg.from = Absent
    /\ pc = "done"
    /\ response.status_code = 400
    /\ response.body.error_code = "INVALID_PAYLOAD"

\* C7: create_response_for_meta answers 200 for every input when
\* ALWAYS_RETURN_OK_TO_META is on; when it is off it answers the given
\* status for success = false and 200 for success = true; the body is the
\* same under both values of the flag.
C7_StatusRewriting ==
    (pure.fn = "create_response_for_meta" /\ pure.stage = "output") =>
        /\ pure.on.status_code = 200
        /\ pure.off.status_code = IF pure.success THEN 200 ELSE pure.status_code
        /\ pure.on.body = pure.off.body
        /\ pure.on.kind = "json" /\ pure.off.kind = "json"

C7_Witness ==
    /\ pure.fn = "create_response_for_meta"
    /\ pure.stage = "output"
    /\ ~pure.success
    /\ pure.status_code = 503
    /\ pure.on.status_code = 200
    /\ pure.off.status_code = 503

IsPrefix(s, t) == Len(s) <= Len(t) /\ s = SubSeq(t, 1, Len(s))

\* C8: within one send_message call the parts are sent in list order, part
\* i + 1 only after part i was accepted, and a failure leaves the later
\* parts unsent: at every moment the parts delivered are a prefix of the
\* parts handed over.
C8_DeliveredPrefix ==
    \A i \in 1..Len(sends) : IsPrefix(sends[i].delivered, sends[i].parts)

C8_Witness ==
    /\ pc = "done"
    /\ \E i \in 1..Len(sends) :
          /\ Len(sends[i].parts) >= 3
          /\ Len(sends[i].delivered) = 1

\* The one request of a webhook under maintenance is the POST of the
\* notice, and it took its time: the part was delivered MaxRequestSeconds
\* seconds after the webhook arrived.
C8_WitnessSlowPart ==
    /\ pc = "done"
    /\ settings.WHATSAPP_UNDER_MAINTENANCE
    /\ calls.check_user_exists = 0
    /\ Len(sends) = 1
    /\ sends[1].delivered = sends[1].parts
    /\ Len(sends[1].parts) >= 1
    /\ clock = MaxRequestSeconds

ChunkSizesOk ==
    \A i \in 1..Len(pure.chunks) :
        /\ Len(pure.chunks[i]) >= 1
        /\ Len(pure.chunks[i]) <= WHATSAPP_MAX_MESSAGE_LENGTH

\* C9 as stated: for every text, every chunk split_message returns is
\* non-empty and at most WHATSAPP_MAX_MESSAGE_LENGTH characters long.
C9_ChunksBounded ==
    (pure.fn = "split_message" /\ pure.stage = "output") => ChunkSizesOk

\* C9, amended: for every non-empty text, every chunk split_message returns
\* is non-empty and at most WHATSAPP_MAX_MESSAGE_LENGTH characters long (the
\* empty text comes back as one empty chunk).
C9_ChunksBoundedNonEmptyText ==
    /\ (pure.fn = "split_message" /\ pure.stage = "output" /\ pure.text # << >>)
          => ChunkSizesOk
    /\ (pure.fn = "split_message" /\ pure.stage = "output" /\ pure.text = << >>)
          => pure.chunks = << << >> >>

C9_Witness ==
    /\ pure.fn = "split_message"
    /\ pure.stage = "output"
    /\ Len(pure.text) > 2 * WHATSAPP_MAX_MESSAGE_LENGTH
    /\ Len(pure.chunks) >= 3
    /\ \E i \in 1..Len(pure.chunks) : Len(pure.chunks[i]) = WHATSAPP_MAX_MESSAGE_LENGTH
    /\ \E i \in 1..Len(pure.chunks) : Len(pure.chunks[i]) = 1

\* The number of newlines a text starts with.
RECURSIVE LeadingNewlines(_)
LeadingNewlines(t) ==
    IF t = << >> \/ Head(t) # NL THEN 0 ELSE 1 + LeadingNewlines(Tail(t))

\* A text without its blank-line separators (its maximal runs of two or
\* more newlines).
RECURSIVE WithoutSeparators(_)
WithoutSeparators(t) ==
    IF t = << >> THEN << >>
    ELSE IF Head(t) # NL THEN << Head(t) >> \o WithoutSeparators(Tail(t))
    ELSE LET n == LeadingNewlines(t)
         IN  (IF n >= 2 THEN << >> ELSE << NL >>)
             \o WithoutSeparators(SubSeq(t, n + 1, Len(t)))

\* C10: the chunks of split_message, concatenated in order, are the text up
\* to blank-line separators the paragraph tier removes or collapses: no
\* other character is dropped, duplicated or reordered.
C10_ContentPreserved ==
    (pure.fn = "split_message" /\ pure.stage = "output") =>
        WithoutSeparators(Concat(pure.chunks)) = WithoutSeparators(pure.text)

C10_Witness ==
    /\ pure.fn = "split_message"
    /\ pure.stage = "output"
    /\ Len(pure.chunks) >= 2
    /\ Concat(pure.chunks) # pure.text
    /\ \E i \in 1..Len(pure.chunks) : \E j \in 1..Len(pure.chunks[i]) :
          pure.chunks[i][j] = NL

\* C11: a text no longer than the limit is returned as the single chunk equal
\* to the text itself, whatever header markers, bold spans and blank lines it
\* holds.
C11_ShortTextIdentity ==
    (pure.fn = "split_message" /\ pure.stage = "output"
       /\ Len(pure.text) <= WHATSAPP_MAX_MESSAGE_LENGTH)
      => pure.chunks = << pure.text >>

\* A text within the limit that holds a bold span and a blank line.
C11_Witness ==
    /\ pure.fn = "split_message"
    /\ pure.stage = "output"
    /\ pure.text = << STAR, "a", STAR, NL, NL, NL >>
    /\ pure.chunks = << pure.text >>

\* The retention test of the claim, written from the claim's words: no thread
\* id, or no last message time, or strictly more than the retention window
\* elapsed since the last message (primed: at the time the backend's answer
\* is there).
C12_Expired ==
    \/ backend.thread_id = Absent
    \/ backend.last_message_time = AbsentTime
    \/ now - backend.last_message_time > WHATSAPP_CHAT_RETENTION_HOURS * 3600

C12_ThreadChoice ==
    /\ (pc = "handle_text_message"
          /\ calls'.get_last_thread_info = calls.get_last_thread_info + 1
          /\ calls'.faults = calls.faults)
        => IF C12_Expired'
           THEN pc' = "create_thread"
           ELSE /\ pc' = "process_message"
                /\ manager'.thread_id = backend.thread_id
                /\ calls'.create_thread = calls.create_thread
    /\ calls'.create_thread # calls.create_thread
        => (pc = "create_thread" /\ calls.get_last_thread_info = 1)

\* C12: handle_text_message creates a new thread exactly when the backend
\* reports no thread id or more than the retention window has elapsed since
\* the last message (an absent time counting as infinitely long ago);
\* otherwise it passes the reported thread id on and never calls
\* create_thread.
C12_NewThreadOnlyWhenExpired ==
    /\ [][C12_ThreadChoice]_vars
    /\ [](calls.process_message >= 1
            => /\ calls.create_thread <= 1
               /\ calls.process_thread =
                     IF calls.create_thread = 0 THEN backend.thread_id ELSE NewThread
               /\ calls.process_thread # Absent)

\* A last message one second older than the window: a thread is being created.
C12_Witness ==
    /\ pc = "create_thread"
    /\ backend.thread_id = ExistingThread
    /\ backend.last_message_time = now - WHATSAPP_CHAT_RETENTION_HOURS * 3600 - 1

\* A last message one second younger than the window when the webhook
\* arrived, and a first indicator request that took its time: a thread is
\* being created before the loop has woken once.
C12_WitnessSlowRequest ==
    /\ pc = "create_thread"
    /\ backend.thread_id = ExistingThread
    /\ backend.last_message_time = T0 - WHATSAPP_CHAT_RETENTION_HOURS * 3600 + 1
    /\ calls.send_typing_indicator = 1
    /\ clock = MaxRequestSeconds

\* The same for a message without an id, which starts no indicator: the
\* backend took its time to answer and the thread had expired by then.
C12_WitnessSlowBackend ==
    /\ pc = "create_thread"
    /\ ~HasMessageId
    /\ backend.thread_id = ExistingThread
    /\ backend.last_message_time = T0 - WHATSAPP_CHAT_RETENTION_HOURS * 3600 + 1
    /\ calls.send_typing_indicator = 0
    /\ clock = MaxRequestSeconds

\* A last message one second younger than the window: the thread is reused.
C12_WitnessReuse ==
    /\ pc = "process_message"
    /\ calls.create_thread = 0
    /\ manager.thread_id = ExistingThread
    /\ backend.last_message_time = now - WHATSAPP_CHAT_RETENTION_HOURS * 3600 + 1

C13_InRegistration == pc \in {"check_user", "register", "reg_failed"}

C13_HandlerScheduled ==
    \E i \in 1..Len(tasks) :
        tasks[i].fn \in {"handle_text_message", "handle_unsupported_message"}

C13_Registration ==
    /\ C13_InRegistration => response' # UnhandledException
    /\ (pc = "check_user" /\ pc' # pc) =>
          /\ pc' \in {"dispatch", "register", "background"}
          /\ pc' = "dispatch"
                <=> /\ calls'.check_user_exists = calls.check_user_exists + 1
                    /\ calls'.faults = calls.faults
                    /\ backend.user_exists
          /\ pc' = "register"
                <=> /\ calls'.check_user_exists = calls.check_user_exists + 1
                    /\ calls'.faults = calls.faults
                    /\ ~backend.user_exists
    /\ (pc = "register" /\ pc' # pc) =>
          /\ pc' \in {"dispatch", "sending", "reg_failed", "background"}
          /\ pc' = "dispatch"
                <=> /\ calls'.register_user = calls.register_user + 1
                    /\ calls'.faults = calls.faults
    /\ calls'.register_user # calls.register_user
          => /\ pc = "register"
             /\ calls.check_user_exists = 1
             /\ calls.registration_faults = 0
             /\ ~backend.user_exists
    /\ (C13_InRegistration /\ pc' = "background") =>
          /\ response'.kind = "json"
          /\ ~response'.body.success
          /\ response'.body.error_code = "USER_REGISTRATION_FAILED"
          /\ response'.status_code =
                IF settings.ALWAYS_RETURN_OK_TO_META THEN 200 ELSE 500

\* C13: check_and_register_user never raises and returns true exactly when
\* check_user_exists reported true or register_user succeeded; register_user
\* is called only after check_user_exists returned false; when it returns
\* false the endpoint schedules neither handler and answers success=false
\* with USER_REGISTRATION_FAILED (status 500 unless statuses are rewritten).
C13_CheckAndRegister ==
    /\ [][C13_Registration]_vars
    /\ [](pc = "dispatch"
            => \/ backend.user_exists /\ calls.register_user = 0
               \/ calls.register_user = 1 /\ calls.registration_faults = 0)
    /\ []((response.kind = "json"
             /\ response.body.error_code = "USER_REGISTRATION_FAILED")
            => /\ ~C13_HandlerScheduled
               /\ calls.get_last_thread_info = 0
               /\ calls.create_thread = 0
               /\ calls.process_message = 0
               /\ \A i \in 1..Len(sends) : sends[i].kind # "unsupported")

\* register_user was tried and failed: the request is answered with
\* USER_REGISTRATION_FAILED and every background task has run.
C13_Witness ==
    /\ pc = "done"
    /\ calls.check_user_exists = 1
    /\ calls.register_user = 1
    /\ calls.registration_faults = 1
    /\ response.kind = "json"
    /\ response.body.error_code = "USER_REGISTRATION_FAILED"

C14_NoBackendCall ==
    /\ calls.check_user_exists = 0
    /\ calls.register_user = 0
    /\ calls.get_last_thread_info = 0
    /\ calls.create_thread = 0
    /\ calls.process_message = 0

C14_NoticeTask == Task("send_whatsapp_message", Notice("maintenance"))

\* C14: with the maintenance flag set, a message that passed the wrong-number
\* and status filters is answered success=false with MAINTENANCE_MODE (status
\* 503 unless statuses are rewritten) and exactly one send of the maintenance
\* notice is scheduled; no typing indicator is started and the backend is
\* never called, whatever the message's age, type, prefix or the user's
\* registration.
C14_Maintenance ==
    (manager.built /\ settings.WHATSAPP_UNDER_MAINTENANCE) =>
        /\ pc \in {"maintenance", "background", "send_whatsapp_message",
                   "sending", "done"}
        /\ C14_NoBackendCall
        /\ calls.send_typing_indicator = 0
        /\ loop = "none"
        /\ pc = "maintenance" => (tasks = << >> /\ ~Answered)
        /\ pc # "maintenance" =>
              /\ response.kind = "json"
              /\ ~response.body.success
              /\ response.body.error_code = "MAINTENANCE_MODE"
              /\ response.status_code =
                    IF settings.ALWAYS_RETURN_OK_TO_META THEN 200 ELSE 503
              /\ \/ tasks = << C14_NoticeTask >> /\ sends = << >>
                 \/ /\ tasks = << >>
                    /\ Len(sends) = IF HasPhone THEN 1 ELSE 0
                    /\ \A i \in 1..Len(sends) :
                          /\ sends[i].kind = "maintenance"
                          /\ sends[i].parts = split_message(Notice("maintenance"))

\* An old, non-text message of an unregistered user during maintenance: the
\* notice has been delivered and nothing else has happened.
C14_Witness ==
    /\ pc = "done"
    /\ manager.built
    /\ settings.WHATSAPP_UNDER_MAINTENANCE
    /\ manager.incoming_msg_type # "text"
    /\ ~backend.user_exists
    /\ manager.message_unix_time > 0
    /\ T0 - manager.message_unix_time > WHATSAPP_MESSAGE_AGE_THRESHOLD_SECONDS
    /\ Len(sends) = 1
    /\ sends[1].delivered = sends[1].parts
    /\ sends[1].parts # << >>

\* The message carries a timestamp more than the threshold before the arrival
\* of the webhook.
C15_Older ==
    /\ manager.built
    /\ manager.message_unix_time >= 0
    /\ T0 - manager.message_unix_time > WHATSAPP_MESSAGE_AGE_THRESHOLD_SECONDS

\* main_webhook has gone past its age check (it did not stop at the
\* maintenance check or at the development filter).
C15_PastAgeCheck ==
    /\ ~settings.WHATSAPP_UNDER_MAINTENANCE
    /\ pc \notin {"verify", "parse", "maintenance", "dev_filter", "typing"}
    /\ response # UnhandledException
    /\ response.kind = "json" => response.body.error_code # "DEV_FILTER"

C15_OnlyTypingScheduled ==
    /\ response.kind = "json"
    /\ ~response.body.success
    /\ response.body.error_code = "MESSAGE_TOO_OLD"
    /\ response.status_code = IF settings.ALWAYS_RETURN_OK_TO_META THEN 200 ELSE 422
    /\ C14_NoBackendCall
    /\ sends = << >>
    /\ calls.send_message = 0
    /\ \A i \in 1..Len(tasks) : tasks[i].fn = "send_typing_indicator_then_start_loop"
    /\ Len(tasks) <= 1
    /\ pc \in {"background", "send_typing_indicator_then_start_loop", "done"}
    /\ loop # "cancelled"
    /\ loop = "done" => now - first_indicator_time > MAX_DURATION_SECONDS

\* C15: a message older than the age threshold is answered MESSAGE_TOO_OLD
\* (status 422 unless statuses are rewritten) with only the start of the
\* typing indicator scheduled: no backend call, no handler, no text message,
\* and the typing loop ends only by its 300-second cap.
C15_TooOld == (C15_Older /\ C15_PastAgeCheck) => C15_OnlyTypingScheduled

\* The same for timestamps other than 0.
C15_TooOldNonZero ==
    (C15_Older /\ manager.message_unix_time # 0 /\ C15_PastAgeCheck)
        => C15_OnlyTypingScheduled

\* The typing loop of an old message has run to its cap.
C15_ReachedCap ==
    /\ C15_Older
    /\ C15_PastAgeCheck
    /\ pc = "done"
    /\ loop = "done"
    /\ calls.send_typing_indicator >= 12

\* C16: is_message_too_old(t) never raises and is true exactly when t is a
\* present timestamp and now - t is strictly greater than the threshold (true
\* at threshold + 1 s of age, false at threshold - 1 s, false for an absent
\* timestamp).  A timestamp beyond the platform's range lies in the future.
C16_TooOldExactly ==
    (pure.fn = "is_message_too_old" /\ pure.stage = "output") =>
        /\ pure.result # "raises"
        /\ pure.result = "true"
              <=> /\ pure.message_unix_time >= 0
                  /\ pure.now - pure.message_unix_time
                        > WHATSAPP_MESSAGE_AGE_THRESHOLD_SECONDS

\* The same for timestamps other than 0 and within the platform's range.
C16_TooOldInRange ==
    (pure.fn = "is_message_too_old" /\ pure.stage = "output"
       /\ pure.message_unix_time \notin {0, HugeTime}) =>
        /\ pure.result # "raises"
        /\ pure.result = "true"
              <=> /\ pure.message_unix_time > 0
                  /\ pure.now - pure.message_unix_time
                        > WHATSAPP_MESSAGE_AGE_THRESHOLD_SECONDS

\* A recent non-text message of a user who exists or has just been
\* registered, while the service is not under maintenance; the request and
\* its background work are over.
C17_UnsupportedRequest ==
    /\ manager.built
    /\ manager.incoming_msg_type # "text"
    /\ HasPhone
    /\ ~settings.WHATSAPP_UNDER_MAINTENANCE
    /\ manager.message_unix_time > 0
    /\ T0 - manager.message_unix_time < WHATSAPP_MESSAGE_AGE_THRESHOLD_SECONDS
    /\ calls.registration_faults = 0
    /\ pc = "done"

C17_Handled ==
    /\ response.kind = "json"
    /\ ~response.body.success
    /\ response.body.error_code = "UNSUPPORTED_MESSAGE_TYPE"
    /\ response.status_code = IF settings.ALWAYS_RETURN_OK_TO_META THEN 200 ELSE 415
    /\ Len(sends) = 1
    /\ sends[1].kind = "unsupported"
    /\ sends[1].parts = split_message(UnsupportedNotice(manager.incoming_msg_type))
    /\ calls.send_message = 1
    /\ calls.get_last_thread_info = 0
    /\ calls.create_thread = 0
    /\ calls.process_message = 0

\* C17: a recent non-text message (the substituted type "errors" included)
\* from a user who exists or was just registered is answered
\* UNSUPPORTED_MESSAGE_TYPE (status 415 unless statuses are rewritten),
\* handle_unsupported_message sends exactly one fixed notice, and
\* get_last_thread_info, create_thread and process_message are never called.
C17_Unsupported == C17_UnsupportedRequest => C17_Handled

\* The same when the body of the message is a dict or the deployment is not
\* the staging one.
C17_UnsupportedDictBody ==
    (C17_UnsupportedRequest
      /\ (settings.DEPLOYMENT_TYPE # "staging" \/ manager.incoming_msg_body.shape # "list"))
        => C17_Handled

\* The notice for the substituted type "errors" was delivered.
C17_ErrorsHandled ==
    /\ C17_UnsupportedRequest
    /\ manager.incoming_msg_type = "errors"
    /\ C17_Handled
    /\ sends[1].delivered = sends[1].parts

\* The time the response carries: the time at which it was given.
C18_AnswerTime == response.body.timestamp

\* The response main_webhook gives, once the user has been looked up, when
\* no backend call fails.
C18_NoFaultResponse ==
    IF /\ ~backend.user_exists
       /\ manager.incoming_msg_type = "text"
       /\ manager.incoming_msg_body.shape # "text_dict"
    THEN create_response_for_meta(settings.ALWAYS_RETURN_OK_TO_META, FALSE,
             "User registration failed", 500, "USER_REGISTRATION_FAILED", Absent, C18_AnswerTime)
    ELSE IF manager.incoming_msg_type # "text"
    THEN create_response_for_meta(settings.ALWAYS_RETURN_OK_TO_META, FALSE,
             "Unsupported message type handled", 415, "UNSUPPORTED_MESSAGE_TYPE",
             Absent, C18_AnswerTime)
    ELSE create_response_for_meta(settings.ALWAYS_RETURN_OK_TO_META, TRUE,
             "Message processed successfully", 200, Absent, Absent, C18_AnswerTime)

\* C18 as stated: the response of the webhook does not depend on the outcome
\* of any Backend Client call; whichever calls fail, it is the response of
\* the run in which none fails.
C18_ResponseIgnoresBackend ==
    (calls.check_user_exists >= 1 /\ Answered) =>
        /\ response.kind = "json"
        /\ response.body.timestamp \in T0..now
        /\ response = C18_NoFaultResponse

\* C18 amended: the response does not depend on the outcome of
\* get_last_thread_info, create_thread or process_message, and once given it
\* never changes; a failure of check_user_exists or register_user is the one
\* backend outcome it shows, as USER_REGISTRATION_FAILED.
C18_ResponseIgnoresBackgroundFailures ==
    /\ []((calls.check_user_exists >= 1 /\ Answered)
            => /\ response.kind = "json"
               /\ response.body.timestamp \in T0..now
               /\ response =
                    IF calls.registration_faults > 0
                    THEN create_response_for_meta(settings.ALWAYS_RETURN_OK_TO_META,
                             FALSE, "User registration failed", 500,
                             "USER_REGISTRATION_FAILED", Absent, C18_AnswerTime)
                    ELSE C18_NoFaultResponse)
    /\ [][Answered => response' = response]_vars
    /\ [][(~Answered /\ Answered' /\ response'.kind = "json")
            => response'.body.timestamp = now']_vars

\* The response of a request whose check_user_exists took its time carries
\* the time of the answer, not the time of arrival.
C18_WitnessSlowCheck ==
    /\ Answered
    /\ calls.check_user_exists = 1
    /\ response.kind = "json"
    /\ response.body.timestamp = T0 + MaxRequestSeconds

\* A backend call failed in the background work of a request that had been
\* acknowledged as a success.
C18_Witness ==
    /\ pc = "done"
    /\ Answered
    /\ calls.registration_faults = 0
    /\ calls.faults >= 1
    /\ response.kind = "json"
    /\ response.body.success

\* The header is 'sha256=' followed by the digest of the body under the
\* i-th configured secret.
C19_SignedWith(i) ==
    pure.header = << Sha256Prefix, HexDigest(hmac_sha256(pure.app_secrets[i], pure.body)) >>

\* C19 as stated: verification succeeds exactly when the header is 'sha256='
\* followed by the HMAC-SHA256 digest of the raw body under at least one
\* configured secret, whatever the number of secrets and the position of the
\* matching one.
C19_AnySecretVerifies ==
    (pure.fn = "verify_meta_signature" /\ pure.stage = "output") =>
        (pure.result = "ok"
           <=> \E i \in 1..Len(pure.app_secrets) : C19_SignedWith(i))

\* 'sha256=' occurs in the header only as its leading prefix.
C19_PrefixOnce == \A i \in 2..Len(pure.header) : pure.header[i] # Sha256Prefix

\* What the code does for a header that holds 'sha256=' only as its prefix:
\* verification succeeds exactly when the header is 'sha256=' followed by the
\* digest of the raw body under one of the first three configured secrets;
\* secrets after the third are never tried.
C19_FirstThreeSecretsVerify ==
    (pure.fn = "verify_meta_signature" /\ pure.stage = "output" /\ C19_PrefixOnce) =>
        (pure.result = "ok"
           <=> \E i \in 1..Len(pure.app_secrets) : i <= 3 /\ C19_SignedWith(i))

\* Four secrets are configured and only the third verifies the header.
C19_Witness ==
    /\ pure.fn = "verify_meta_signature"
    /\ pure.stage = "output"
    /\ Len(pure.app_secrets) = 4
    /\ C19_SignedWith(3)
    /\ ~C19_SignedWith(1) /\ ~C19_SignedWith(2) /\ ~C19_SignedWith(4)
    /\ pure.result = "ok"

\* Four secrets are configured and only the fourth matches the header: the
\* request is refused.
C19_FourthSecretSkipped ==
    /\ pure.fn = "verify_meta_signature"
    /\ pure.stage = "output"
    /\ Len(pure.app_secrets) = 4
    /\ C19_SignedWith(4)
    /\ pure.result = "forbidden"

\* The header is 'sha256=sha256=' followed by the digest under the first
\* secret, which is the digest of no configured secret after the prefix: the
\* request is accepted.
C19_RepeatedPrefixAccepted ==
    /\ pure.fn = "verify_meta_signature"
    /\ pure.stage = "output"
    /\ pure.header = << Sha256Prefix, Sha256Prefix,
                        HexDigest(hmac_sha256(pure.app_secrets[1], pure.body)) >>
    /\ pure.result = "ok"

C20_Answered == pure.fn = "verification_webhook" /\ pure.stage = "output"

C20_Verified ==
    pure.mode = "subscribe" /\ pure.verify_token = META_WEBHOOK_VERIFY_TOKEN

\* C20 as stated: the handshake is answered 200 with the value of
\* hub.challenge as body exactly when hub.mode is "subscribe" and
\* hub.verify_token is the configured token, 400 when hub.mode,
\* hub.verify_token or hub.challenge is missing, and 403 when all three are
\* there and the mode or the token is wrong.
C20_Handshake ==
    C20_Answered =>
        LET missing == Absent \in {pure.mode, pure.verify_token, pure.challenge}
        IN  /\ (pure.result.status_code = 200 /\ pure.result.body = pure.challenge)
                  <=> C20_Verified
            /\ missing => pure.result.status_code = 400
            /\ (~missing /\ ~C20_Verified) => pure.result.status_code = 403

\* C20 amended: 200 exactly when the mode is "subscribe" and the token is the
\* configured one, the body being the value of hub.challenge, or empty when
\* hub.challenge is missing; 400 exactly when hub.mode or hub.verify_token is
\* missing or empty; 403 otherwise.
C20_HandshakeTwoRequiredParams ==
    C20_Answered =>
        /\ pure.result.status_code \in {200, 400, 403}
        /\ pure.result.status_code = 200 <=> C20_Verified
        /\ pure.result.status_code = 200
              => pure.result.body = (IF pure.challenge = Absent THEN "" ELSE pure.challenge)
        /\ pure.result.status_code = 400
              <=> (pure.mode \in {Absent, ""} \/ pure.verify_token \in {Absent, ""})

\* A verified handshake without hub.challenge: 200 with an empty body.
C20_Witness ==
    /\ C20_Answered
    /\ C20_Verified
    /\ pure.challenge = Absent
    /\ pure.result.status_code = 200
    /\ pure.result.body = ""

\* A text message that begins with the dev prefix has passed the maintenance
\* check and main_webhook has gone past its development filter.
C21_PrefixedMessage ==
    /\ manager.built
    /\ manager.incoming_msg_type = "text"
    /\ manager.incoming_msg_body.shape = "text_dict"
    /\ StartsWithDevPrefix(manager.incoming_msg_body.body)
    /\ ~settings.WHATSAPP_UNDER_MAINTENANCE
    /\ pc \notin {"maintenance", "dev_filter"}

C21_Filtered ==
    /\ response.kind = "json"
    /\ response.body.error_code = "DEV_FILTER"

\* C21: on a staging deployment a text message that begins with "!d " has no
\* side effect (no typing indicator, no backend call, no message, no
\* background task) and is answered DEV_FILTER (status 202 unless statuses
\* are rewritten); on every other deployment the same message is not
\* filtered: the typing start is scheduled and, when nothing fails, the
\* message is processed and answered as a success.
C21_DevFilter ==
    /\ (C21_PrefixedMessage /\ settings.DEPLOYMENT_TYPE = "staging") =>
          /\ C21_Filtered
          /\ ~response.body.success
          /\ response.status_code =
                IF settings.ALWAYS_RETURN_OK_TO_META THEN 200 ELSE 202
          /\ NoClientActivity
          /\ pc \in {"background", "done"}
    /\ (C21_PrefixedMessage /\ settings.DEPLOYMENT_TYPE # "staging") =>
          /\ ~C21_Filtered
          /\ (pc # "typing" /\ ~Answered) =>
                /\ tasks # << >>
                /\ Head(tasks).fn = "send_typing_indicator_then_start_loop"
          /\ (pc = "done" /\ calls.faults = 0 /\ backend.user_exists
                /\ manager.message_unix_time > 0
                /\ T0 - manager.message_unix_time < WHATSAPP_MESSAGE_AGE_THRESHOLD_SECONDS
                /\ HasPhone)
               => /\ response.kind = "json"
                  /\ response.body.success
                  /\ calls.process_message = 1
    /\ C21_Filtered =>
          /\ settings.DEPLOYMENT_TYPE = "staging"
          /\ StartsWithDevPrefix(manager.incoming_msg_body.body)

\* The prefixed message was filtered on staging.
C21_Witness ==
    /\ C21_PrefixedMessage
    /\ settings.DEPLOYMENT_TYPE = "staging"
    /\ pc = "done"
    /\ C21_Filtered

\* The prefixed message was processed on a local deployment.
C21_WitnessProcessed ==
    /\ C21_PrefixedMessage
    /\ settings.DEPLOYMENT_TYPE = "local"
    /\ pc = "done"
    /\ calls.process_message = 1
    /\ Len(sends) = 1
    /\ sends[1].kind = "response"

\* C22 as stated: the first typing indicator is sent before check_user_exists
\* (and register_user) is called, so whenever the backend has been asked about
\* the user an indicator has already been sent.
C22_TypingBeforeRegistering ==
    (calls.check_user_exists >= 1 /\ HasMessageId)
        => calls.send_typing_indicator >= 1

C22_ResponseSendStarts ==
    /\ Len(sends') = Len(sends) + 1
    /\ sends'[Len(sends')].kind = "response"

C22_Order ==
    /\ calls'.check_user_exists # calls.check_user_exists
          => /\ ~Answered
             /\ calls.send_typing_indicator = 0
             /\ calls.register_user = 0
    /\ calls'.register_user # calls.register_user
          => /\ ~Answered
             /\ calls.send_typing_indicator = 0
             /\ calls.check_user_exists = 1
    /\ (calls.send_typing_indicator = 0 /\ calls'.send_typing_indicator = 1)
          => /\ Answered
             /\ calls.get_last_thread_info = 0
    /\ calls'.get_last_thread_info # calls.get_last_thread_info
          => /\ calls.check_user_exists = 1
             /\ calls.send_typing_indicator >= 1 \/ ~HasMessageId
             /\ calls.create_thread = 0
             /\ calls.process_message = 0
    /\ calls'.create_thread # calls.create_thread
          => /\ calls.get_last_thread_info = 1
             /\ calls.process_message = 0
    /\ calls'.process_message # calls.process_message
          => /\ calls.get_last_thread_info = 1
             /\ \A i \in 1..Len(sends) : sends[i].kind # "response"
    /\ C22_ResponseSendStarts
          => /\ calls.process_message = 1
             /\ pc # "done"
    /\ pc = "done" => pc' = "done"

\* C22 amended: an accepted message passes through RECEIVED, REGISTERING
\* (check_user_exists, then register_user, both before the response), TYPING
\* (the first indicator, after the response), THREAD_RESOLUTION, PROCESSING,
\* RESPONDING and DONE in this order.
C22_RegisteringBeforeTyping == [][C22_Order]_vars

\* A new user's message went through every step.
C22_Witness ==
    /\ pc = "done"
    /\ calls.check_user_exists = 1
    /\ calls.register_user = 1
    /\ calls.send_typing_indicator >= 1
    /\ calls.get_last_thread_info = 1
    /\ calls.create_thread = 1
    /\ calls.process_message = 1
    /\ Len(sends) = 1
    /\ sends[1].kind = "response"
    /\ sends[1].delivered = sends[1].parts


\* The steps of the typing task.  A sleep returns 26 s after it began, not
\* before; at that wake-up the loop stops when more than 300 s have passed
\* since the first indicator, having sent one indicator per sleep before,
\* and otherwise starts one indicator request, which is answered within
\* MaxRequestSeconds; the next sleep begins at the answer.  Every indicator
\* is the first one or one of the loop, and a loop that has ended does
\* nothing more.
C23_Wake ==
    /\ (loop = "sleeping" /\ loop' \notin {"sleeping", "cancelled"}) =>
          /\ clock' = timer.due
          /\ IF (T0 + clock') - first_indicator_time > 300
             THEN /\ loop' = "done"
                  /\ calls'.send_typing_indicator = calls.send_typing_indicator
                  /\ calls.send_typing_indicator
                        = ((T0 + clock') - first_indicator_time) \div 26
             ELSE /\ loop' = "requesting"
                  /\ calls'.send_typing_indicator = calls.send_typing_indicator + 1
                  /\ timer'.due - clock' \in 0..MaxRequestSeconds
    /\ (loop = "sleeping" /\ loop' = "sleeping") =>
          (timer'.due = timer.due /\ clock' <= timer.due)
    /\ (loop # "sleeping" /\ loop' = "sleeping") =>
          /\ loop \in {"none", "requesting"}
          /\ clock' = timer.due
          /\ timer'.due = clock' + 26
          /\ calls'.send_typing_indicator = calls.send_typing_indicator
    /\ calls'.send_typing_indicator # calls.send_typing_indicator =>
          /\ calls'.send_typing_indicator = calls.send_typing_indicator + 1
          /\ IF calls.send_typing_indicator = 0
             THEN loop = "none" /\ loop' = "none" /\ first_indicator_time = now
             ELSE /\ loop = "sleeping"
                  /\ (T0 + clock') - first_indicator_time <= 300
    /\ loop \in {"cancelled", "done"} =>
          (loop' = loop /\ calls'.send_typing_indicator = calls.send_typing_indicator)

\* C23: after the initial indicator the loop sends one further indicator per
\* 26-second sleep and stops at the first wake-up at which more than 300
\* seconds have passed since the first indicator, unless it is cancelled
\* before; no indicator is sent later than 300 seconds after the first and a
\* conversation context sends at most 12 indicators.
C23_TypingLoop ==
    /\ [][C23_Wake]_vars
    /\ [](calls.send_typing_indicator <= 12)
    /\ [](loop \in {"sleeping", "requesting"} =>
            calls.send_typing_indicator
              = (IF loop = "sleeping" THEN 0 ELSE 1)
                + ((T0 + timer.due) - first_indicator_time) \div 26)
    /\ [](loop = "done" => calls.send_typing_indicator \in {11, 12})

\* The loop of a context ran to its cap: twelve indicators, the last one 286
\* seconds after the first, and the stop at the wake-up of second 312.
C23_Witness ==
    /\ loop = "done"
    /\ calls.send_typing_indicator = 12
    /\ now - first_indicator_time = 312

\* An indicator request took 15 s: the loop stopped at its eleventh
\* wake-up, 301 seconds after the first indicator, with eleven indicators.
C23_WitnessSlowRequest ==
    /\ loop = "done"
    /\ calls.send_typing_indicator = 11
    /\ now - first_indicator_time = 301

\* The handler has returned while an indicator request of the loop is in
\* flight: the request had been sent before the handler's last step.
C23_WitnessRequestInFlight ==
    /\ loop = "requesting"
    /\ pc = "done"
    /\ calls.send_typing_indicator = 2
    /\ timer.due = clock + MaxRequestSeconds

\* The first indicator was requested and is not answered yet: the time of
\* the first indicator is recorded and no loop exists.
C23_WitnessFirstRequest ==
    /\ pc = "send_typing_indicator_then_start_loop"
    /\ first_indicator_time = T0
    /\ calls.send_typing_indicator = 1
    /\ loop = "none"
    /\ Len(tasks) = 2

\* The loop was cancelled after a few indicators.
C23_WitnessCancelled ==
    /\ loop = "cancelled"
    /\ calls.send_typing_indicator = 3

\* handle_text_message met a processing error or an unexpected exception (its
\* notice is among the sends) and has returned.
C24_FailedAndReturned ==
    /\ pc \in {"background", "done"}
    /\ \E i \in 1..Len(sends) :
          sends[i].kind \in {"processing_failed", "unexpected_error"}

\* C24: when process_message fails with a processing error, or an unexpected
\* exception occurs inside handle_text_message, then by the time the handler
\* returns the typing loop is no longer running, the user has been sent one
\* generic failure message, and process_message is not called again.
C24_FailureCancelsLoop ==
    /\ [](C24_FailedAndReturned =>
            /\ loop \notin {"sleeping", "requesting"}
            /\ Len(sends) = 1
            /\ calls.send_message = 1
            /\ sends[1].parts = << Notice(sends[1].kind) >>
            /\ calls.process_message <= 1
            /\ tasks = << >>)
    /\ [][C24_FailedAndReturned =>
            (calls'.process_message = calls.process_message /\ sends' = sends)]_vars

\* process_message failed after three typing indicators: the notice was
\* delivered and the loop is cancelled.
C24_Witness ==
    /\ pc = "done"
    /\ Len(sends) = 1
    /\ sends[1].kind = "processing_failed"
    /\ sends[1].delivered = sends[1].parts
    /\ calls.process_message = 1
    /\ calls.send_typing_indicator = 3
    /\ loop = "cancelled"

\* An unexpected exception of get_last_thread_info: the same.
C24_WitnessUnexpected ==
    /\ pc = "done"
    /\ Len(sends) = 1
    /\ sends[1].kind = "unexpected_error"
    /\ calls.get_last_thread_info = 1
    /\ calls.process_message = 0
    /\ loop = "cancelled"

\* handle_text_message was scheduled for a context with a sender phone (the
\* webhook answered success for a parsed message) and has run to its end.
C25_HandlerEnded ==
    /\ pc = "done"
    /\ manager.built
    /\ HasPhone
    /\ response.kind = "json"
    /\ response.body.success

\* process_message returned a text that is non-empty before and after
\* formatting.
C25_UsableResponse ==
    /\ calls.process_message = 1
    /\ manager.response # << >>
    /\ format_for_whatsapp(manager.response) # << >>

\* C25: every execution of handle_text_message for a context with a sender
\* phone ends after exactly one send_whatsapp_message call: the formatted
\* response when process_message returned a text that is non-empty before and
\* after formatting, a fixed failure notice on every other path.
C25_ExactlyOneSend ==
    C25_HandlerEnded =>
        /\ Len(sends) = 1
        /\ calls.send_message = 1
        /\ IF C25_UsableResponse
           THEN /\ sends[1].kind = "response"
                /\ sends[1].parts = split_message(format_for_whatsapp(manager.response))
           ELSE /\ sends[1].kind \in {"thread_info_failed", "thread_creation_failed",
                                      "processing_failed", "empty_response",
                                      "empty_formatted", "unexpected_error"}
                /\ sends[1].parts = << Notice(sends[1].kind) >>
                /\ sends[1].kind = "empty_response"
                      <=> (calls.process_message = 1 /\ calls.faults = 0
                             /\ manager.response = << >>)
                /\ sends[1].kind = "thread_creation_failed" => calls.create_thread = 1
                /\ sends[1].kind = "thread_info_failed" => calls.get_last_thread_info = 1
                /\ sends[1].kind = "processing_failed" => calls.process_message = 1

\* The backend returned an empty text and the user was told so.
C25_Witness ==
    /\ C25_HandlerEnded
    /\ calls.process_message = 1
    /\ manager.response = << >>
    /\ Len(sends) = 1
    /\ sends[1].kind = "empty_response"
    /\ sends[1].delivered = sends[1].parts

\* The formatted response was sent.
C25_WitnessResponse ==
    /\ C25_HandlerEnded
    /\ C25_UsableResponse
    /\ Len(sends[1].parts) >= 2
    /\ sends[1].delivered = sends[1].parts

C26_Notified(kind) == \E i \in 1..Len(sends) : sends[i].kind = kind

C26_NoticeStarts(kinds) ==
    /\ Len(sends') = Len(sends) + 1
    /\ sends'[Len(sends')].kind \in kinds
    /\ calls'.send_message = calls.send_message + 1

C26_FailingCall ==
    /\ (calls'.get_last_thread_info # calls.get_last_thread_info
          /\ calls'.faults # calls.faults)
        => /\ C26_NoticeStarts({"thread_info_failed", "unexpected_error"})
           /\ calls.create_thread = 0 /\ calls.process_message = 0
    /\ (calls'.create_thread # calls.create_thread /\ calls'.faults # calls.faults)
        => /\ C26_NoticeStarts({"thread_creation_failed", "unexpected_error"})
           /\ calls.process_message = 0
    /\ (C26_Notified("thread_info_failed") \/ C26_Notified("thread_creation_failed")
          \/ C26_Notified("unexpected_error"))
        => /\ calls'.create_thread = calls.create_thread
           /\ calls'.process_message = calls.process_message
           /\ calls'.get_last_thread_info = calls.get_last_thread_info

\* C26: when get_last_thread_info fails the user is notified and neither
\* create_thread nor process_message is called; when create_thread fails the
\* user is notified and process_message is not called; within one context
\* each of the three is called at most once.
C26_AbortOnThreadFailure ==
    /\ [][C26_FailingCall]_vars
    /\ [](C26_Notified("thread_info_failed")
            => (calls.get_last_thread_info = 1 /\ calls.create_thread = 0
                  /\ calls.process_message = 0))
    /\ [](C26_Notified("thread_creation_failed")
            => (calls.create_thread = 1 /\ calls.process_message = 0))
    /\ [](/\ calls.get_last_thread_info <= 1
          /\ calls.create_thread <= 1
          /\ calls.process_message <= 1)

\* create_thread failed: the notice was delivered and the handler ended
\* without process_message.
C26_Witness ==
    /\ pc = "done"
    /\ calls.get_last_thread_info = 1
    /\ calls.create_thread = 1
    /\ calls.process_message = 0
    /\ Len(sends) = 1
    /\ sends[1].kind = "thread_creation_failed"
    /\ sends[1].delivered = sends[1].parts

\* get_last_thread_info failed.
C26_WitnessThreadInfo ==
    /\ pc = "done"
    /\ calls.get_last_thread_info = 1
    /\ calls.create_thread = 0
    /\ Len(sends) = 1
    /\ sends[1].kind = "thread_info_failed"

\* A step of a send in which the part in hand is not delivered: the Messaging
\* Client failed.
C27_PartFails ==
    /\ pc = "sending"
    /\ send' # send \/ sends' # sends
    /\ \/ Len(sends') # Len(sends)
       \/ sends'[Len(sends)].delivered = sends[Len(sends)].delivered

C27_Swallowed ==
    /\ C27_PartFails =>
          /\ sends' = sends
          /\ pc' = send.ret
          /\ send' = NoSend
          /\ calls' = calls
          /\ response' = response
          /\ tasks' = tasks
          /\ manager' = manager
    /\ \A i \in 1..Len(sends) :
          (pc # "sending" \/ i < Len(sends))
            => (Len(sends') >= i /\ sends'[i] = sends[i])
    /\ (pc \in {"background", "sending", "done"} /\ Answered) => response' = response

\* C27: a failure of the Messaging Client while a user-facing message is
\* sent is swallowed by send_whatsapp_message: the send ends there and is
\* never taken up again, no message is sent because of the failure, and the
\* caller goes on as after a completed send; the response of the webhook is
\* untouched.
C27_SendFailureSwallowed ==
    /\ [][C27_Swallowed]_vars
    /\ [](/\ Len(sends) <= 2
          /\ calls.send_message = Len(sends)
          /\ Len(sends) = 2 => sends[1].kind = "register_failed_inline")

\* The response was under way when its second part failed; the request ended
\* with that one send, cut short.
C27_Witness ==
    /\ pc = "done"
    /\ Len(sends) = 1
    /\ sends[1].kind = "response"
    /\ Len(sends[1].delivered) = 1
    /\ Len(sends[1].parts) >= 2
    /\ calls.send_message = 1

\* The POST of the maintenance notice failed after MaxRequestSeconds
\* seconds: nothing was delivered and nothing else was sent.
C27_WitnessSlowFailure ==
    /\ pc = "done"
    /\ settings.WHATSAPP_UNDER_MAINTENANCE
    /\ calls.check_user_exists = 0
    /\ Len(sends) = 1
    /\ sends[1].delivered = << >>
    /\ Len(sends[1].parts) >= 1
    /\ clock = MaxRequestSeconds

\* The step in which an indicator send fails for the first time.
C28_IndicatorFails == ~calls.typing_failed /\ calls'.typing_failed

C28_FailureStep ==
    C28_IndicatorFails =>
        /\ loop' = "sleeping"
        /\ response' = response
        /\ sends' = sends
        /\ IF pc = "send_typing_indicator_then_start_loop"
           THEN pc' = "background" /\ tasks' = Tail(tasks)
           ELSE pc' = pc /\ tasks' = tasks

\* C28: a failed typing-indicator send, the initial one or one inside the
\* loop, is swallowed: the loop keeps running to its next interval (it ends
\* only by its cap or by a cancellation) and the handler scheduled after the
\* typing start still runs.
C28_IndicatorFailureSwallowed ==
    /\ [][C28_FailureStep]_vars
    /\ []((calls.typing_failed /\ loop \in {"sleeping", "requesting"})
            => calls.send_typing_indicator
                 = (IF loop = "sleeping" THEN 0 ELSE 1)
                   + ((T0 + timer.due) - first_indicator_time) \div 26)
    /\ []((calls.typing_failed /\ loop = "done")
            => (calls.send_typing_indicator \in {11, 12}
                  /\ now - first_indicator_time > MAX_DURATION_SECONDS))
    /\ []((calls.typing_failed /\ pc = "done" /\ response.kind = "json"
             /\ (response.body.success
                   \/ response.body.error_code = "UNSUPPORTED_MESSAGE_TYPE"))
            => /\ Len(sends) = 1
               /\ sends[1].kind = "unsupported" <=> ~response.body.success)

\* The first indicator failed; the loop went on with further indicators and
\* the handler delivered the response.
C28_Witness ==
    /\ pc = "done"
    /\ calls.typing_failed
    /\ calls.send_typing_indicator = 3
    /\ calls.process_message = 1
    /\ Len(sends) = 1
    /\ sends[1].kind = "response"
    /\ sends[1].delivered = sends[1].parts

C29_RegistrationFailedAndDone ==
    /\ pc = "done"
    /\ HasPhone
    /\ response.kind = "json"
    /\ response.body.error_code = "USER_REGISTRATION_FAILED"

C29_InlineThenScheduled ==
    /\ Len(sends) = 2
    /\ sends[1].kind = "register_failed_inline"
    /\ sends[2].kind = "register_failed"

C29_ScheduledOnly ==
    /\ Len(sends) = 1
    /\ sends[1].kind = "register_failed"

C29_InlineBeforeResponse ==
    (Len(sends') = Len(sends) + 1 /\ sends'[Len(sends')].kind = "register_failed_inline")
        => (~Answered /\ sends = << >> /\ calls'.register_user = calls.register_user + 1)

\* C29 as stated: when register_user fails, in whatever way, a notice is
\* sent inside check_and_register_user before the response and a second one
\* is scheduled by the endpoint; when check_user_exists fails only the
\* scheduled notice is sent.
C29_RegisterFailureNotifiedTwice ==
    C29_RegistrationFailedAndDone =>
        IF calls.register_outcome \in {"error", "exception"}
        THEN C29_InlineThenScheduled
        ELSE C29_ScheduledOnly

\* C29 amended: the inline notice is sent, before the response, when
\* register_user fails with a UserRegistrationError; the scheduled notice
\* follows it.  When check_user_exists fails, or register_user fails with
\* any other exception, only the scheduled notice is sent.
C29_RegistrationErrorNotifiedTwice ==
    /\ [](C29_RegistrationFailedAndDone =>
            IF calls.register_outcome = "error"
            THEN C29_InlineThenScheduled
            ELSE C29_ScheduledOnly)
    /\ [][C29_InlineBeforeResponse]_vars

\* register_user failed with a registration error: both notices were
\* delivered.
C29_Witness ==
    /\ C29_RegistrationFailedAndDone
    /\ calls.register_outcome = "error"
    /\ C29_InlineThenScheduled
    /\ sends[1].delivered = sends[1].parts
    /\ sends[2].delivered = sends[2].parts

\* check_user_exists failed: the scheduled notice alone.
C29_WitnessCheckFailed ==
    /\ C29_RegistrationFailedAndDone
    /\ calls.check_user_exists = 1
    /\ calls.register_user = 0
    /\ calls.registration_faults = 1
    /\ C29_ScheduledOnly

\* register_user failed with an unexpected exception: the scheduled notice
\* alone.
C29_WitnessUnexpected ==
    /\ C29_RegistrationFailedAndDone
    /\ calls.register_outcome = "exception"
    /\ C29_ScheduledOnly

\* The descriptor parse_meta_payload returned for the request's body.
C30_Descriptor == parse_meta_payload(request.body)

C30_Returned == calls.parse = 1 /\ ~C30_Descriptor.error

C30_MessageFieldsAbsent ==
    /\ C30_Descriptor.user_whatsapp_number = Absent
    /\ C30_Descriptor.incoming_msg_type = Absent
    /\ C30_Descriptor.incoming_msg_body = NoValue
    /\ C30_Descriptor.message_id = Absent
    /\ C30_Descriptor.message_unix_time = AbsentTime

\* The shape of the entry of messages[0] under the descriptor's type.
C30_EntryUnderType ==
    IF C30_Descriptor.incoming_msg_type = request.body.msg.type
    THEN request.body.msg.type_value
    ELSE IF C30_Descriptor.incoming_msg_type = "errors"
    THEN request.body.msg.errors_value
    ELSE Absent

C30_BodyIsEntryUnderType ==
    /\ C30_Descriptor.incoming_msg_type # Absent
    /\ C30_EntryUnderType # Absent
    /\ C30_Descriptor.incoming_msg_body
           = MsgValue(C30_EntryUnderType, request.body.msg.text)

\* C30 as stated: a descriptor for another number, or for a status update,
\* has every other field absent; any other descriptor has sender_phone,
\* message_type and message_id present and message_body equal to the
\* message's entry under message_type.
C30_DescriptorInvariant ==
    C30_Returned =>
        IF C30_Descriptor.is_target_business_number = FALSE
        THEN C30_Descriptor.is_status = Absent /\ C30_MessageFieldsAbsent
        ELSE IF C30_Descriptor.is_status = TRUE
        THEN C30_MessageFieldsAbsent
        ELSE /\ C30_Descriptor.user_whatsapp_number # Absent
             /\ C30_Descriptor.message_id # Absent
             /\ C30_BodyIsEntryUnderType

\* C30 amended: as above, except that in a message descriptor only
\* message_type and message_body are sure to be present; sender_phone is the
\* message's 'from' entry, absent when that entry is null, and message_id is
\* the message's 'id' entry, absent when the message has none.
C30_DescriptorInvariantOptionalId ==
    C30_Returned =>
        IF C30_Descriptor.is_target_business_number = FALSE
        THEN C30_Descriptor.is_status = Absent /\ C30_MessageFieldsAbsent
        ELSE IF C30_Descriptor.is_status = TRUE
        THEN C30_MessageFieldsAbsent
        ELSE /\ C30_Descriptor.is_status = FALSE
             /\ request.body.msg.from # Absent
             /\ C30_Descriptor.user_whatsapp_number
                    = (IF request.body.msg.from = JsonNull THEN Absent
                       ELSE request.body.msg.from)
             /\ C30_Descriptor.message_id = request.body.msg.id
             /\ C30_BodyIsEntryUnderType

\* A message of a type with no entry of its own was parsed: the descriptor
\* carries the sender, the id and the "errors" entry.
C30_Witness ==
    /\ C30_Returned
    /\ C30_Descriptor.is_target_business_number = TRUE
    /\ C30_Descriptor.is_status = FALSE
    /\ request.body.msg.type = "poll"
    /\ C30_Descriptor.incoming_msg_type = "errors"
    /\ C30_Descriptor.user_whatsapp_number = SenderPhone
    /\ C30_Descriptor.message_id = MessageId

\* A message without 'id' was parsed into a descriptor with no message_id.
C30_WitnessNoId ==
    /\ C30_Returned
    /\ C30_Descriptor.is_target_business_number = TRUE
    /\ C30_Descriptor.is_status = FALSE
    /\ C30_Descriptor.message_id = Absent
    /\ C30_Descriptor.user_whatsapp_number = SenderPhone

\* A message whose 'from' is null was parsed into a descriptor with no
\* sender.
C30_WitnessNullSender ==
    /\ C30_Returned
    /\ C30_Descriptor.is_target_business_number = TRUE
    /\ C30_Descriptor.is_status = FALSE
    /\ C30_Descriptor.user_whatsapp_number = Absent
    /\ C30_Descriptor.message_id = MessageId

\* Descriptors for another number and for a status update were returned.
C30_WitnessOtherNumber ==
    C30_Returned /\ C30_Descriptor.is_target_business_number = FALSE

C30_WitnessStatus ==
    /\ C30_Returned
    /\ C30_Descriptor.is_target_business_number = TRUE
    /\ C30_Descriptor.is_status = TRUE

\* The request carries a well-formed text message for this number whose
\* timestamp is missing (AbsentTime) or is not the text of an integer
\* (BadTime), and the parser has run on it.
C31_NoUsableTimestamp ==
    /\ calls.parse = 1
    /\ request.body = [GoodBody EXCEPT !.msg.timestamp = request.body.msg.timestamp]
    /\ request.body.msg.timestamp \in {AbsentTime, BadTime}

C31_ParsedAndNotTooOld ==
    /\ ~parse_meta_payload(request.body).error
    /\ parse_meta_payload(request.body).message_unix_time = AbsentTime
    /\ response.kind = "json" =>
          response.body.error_code \notin {"INVALID_PAYLOAD", "MESSAGE_TOO_OLD"}
    /\ (~settings.WHATSAPP_UNDER_MAINTENANCE /\ pc = "done")
          => calls.check_user_exists = 1

\* C31: a message whose timestamp is missing or cannot be parsed as an
\* integer is parsed without an error into a descriptor with
\* message_unix_time absent, and is then handled as not too old.
C31_BadTimestampTolerated == C31_NoUsableTimestamp => C31_ParsedAndNotTooOld

\* The same for a missing timestamp alone.
C31_MissingTimestampTolerated ==
    (C31_NoUsableTimestamp /\ request.body.msg.timestamp = AbsentTime)
        => C31_ParsedAndNotTooOld

\* A message without timestamp went through the age check and was answered.
C31_WitnessMissing ==
    /\ C31_NoUsableTimestamp
    /\ request.body.msg.timestamp = AbsentTime
    /\ pc = "done"
    /\ response.kind = "json"
    /\ response.body.success
    /\ calls.process_message = 1

\* A message with an unparsable timestamp was answered INVALID_PAYLOAD.
C31_WitnessUnparsable ==
    /\ C31_NoUsableTimestamp
    /\ request.body.msg.timestamp = BadTime
    /\ response.kind = "json"
    /\ response.body.error_code = "INVALID_PAYLOAD"

C32_Oversized ==
    /\ pure.fn = "split_message"
    /\ pure.stage = "output"
    /\ Len(pure.text) > WHATSAPP_MAX_MESSAGE_LENGTH

\* The pieces a tier cuts the text into at its markers: from each marker to
\* the next one (to the end of the text for the last).
C32_Pieces(text, matches) ==
    [i \in 1..Len(matches) |->
        Slice(text, matches[i][1],
              IF i < Len(matches) THEN matches[i + 1][1] ELSE Len(text))]

\* A piece that fits is a chunk; an oversized one goes to the named tier.
C32_ByBold(piece) ==
    IF Len(piece) <= WHATSAPP_MAX_MESSAGE_LENGTH THEN << piece >>
    ELSE split_by_bold_text(piece, WHATSAPP_MAX_MESSAGE_LENGTH)

C32_ByParagraphs(piece) ==
    IF Len(piece) <= WHATSAPP_MAX_MESSAGE_LENGTH THEN << piece >>
    ELSE split_by_paragraphs(piece, WHATSAPP_MAX_MESSAGE_LENGTH)

\* The text before the first marker, when there is any.
C32_Before(text, matches) ==
    IF matches[1][1] = 0 THEN << >>
    ELSE C32_ByParagraphs(Slice(text, 0, matches[1][1]))

\* Every oversized paragraph appears in the chunks as its fixed-width
\* windows, in a row.
C32_LongParagraphsFixedWidth(paragraphs, chunks) ==
    \A k \in 1..Len(paragraphs) :
        Len(paragraphs[k]) > WHATSAPP_MAX_MESSAGE_LENGTH =>
            LET w == FixedWindows(paragraphs[k], 0, WHATSAPP_MAX_MESSAGE_LENGTH)
            IN  \E j \in 1..Len(chunks) :
                    /\ j + Len(w) - 1 <= Len(chunks)
                    /\ SubSeq(chunks, j, j + Len(w) - 1) = w

\* C32: an oversized text with two or more header markers is cut at the
\* header markers, an oversized header piece being cut again at bold spans
\* or, failing that, by paragraphs; with fewer than two headers and two or
\* more bold spans it is cut at the bold spans, an oversized bold piece going
\* to the paragraph tier; with neither it is split by paragraphs, oversized
\* paragraphs (or a text without blank lines) by fixed width.  No piece goes
\* back to an earlier tier.
C32_TierOrder ==
    C32_Oversized =>
        LET text == pure.text
            headers == HeaderMatches(text, 0)
            bolds == BoldMatches(text, 0)
            paragraphs == ReSplitBlank(text, 0, 0)
        IN  IF Len(headers) >= 2
            THEN pure.chunks
                   = C32_Before(text, headers)
                     \o Concat([i \in 1..Len(headers) |->
                                   C32_ByBold(C32_Pieces(text, headers)[i])])
            ELSE IF Len(bolds) >= 2
            THEN pure.chunks
                   = C32_Before(text, bolds)
                     \o Concat([i \in 1..Len(bolds) |->
                                   C32_ByParagraphs(C32_Pieces(text, bolds)[i])])
            ELSE IF Len(paragraphs) >= 2
            THEN /\ pure.chunks = split_by_paragraphs(text, WHATSAPP_MAX_MESSAGE_LENGTH)
                 /\ C32_LongParagraphsFixedWidth(paragraphs, pure.chunks)
            ELSE pure.chunks = FixedWindows(text, 0, WHATSAPP_MAX_MESSAGE_LENGTH)

\* A text with two headers whose first header piece is oversized and was cut
\* again at a bold span.
C32_Witness ==
    /\ C32_Oversized
    /\ Len(HeaderMatches(pure.text, 0)) = 2
    /\ Len(C32_Pieces(pure.text, HeaderMatches(pure.text, 0))[1])
          > WHATSAPP_MAX_MESSAGE_LENGTH
    /\ Len(BoldMatches(C32_Pieces(pure.text, HeaderMatches(pure.text, 0))[1], 0)) = 2
    /\ Len(pure.chunks) = 3

\* A text with two headers after an oversized prefix that holds a bold span:
\* the prefix was cut by fixed width, not at the bold span.
C32_WitnessPrefix ==
    /\ C32_Oversized
    /\ Len(HeaderMatches(pure.text, 0)) = 2
    /\ HeaderMatches(pure.text, 0)[1][1] > WHATSAPP_MAX_MESSAGE_LENGTH
    /\ Len(BoldMatches(Slice(pure.text, 0, HeaderMatches(pure.text, 0)[1][1]), 0)) = 1
    /\ Len(pure.chunks[1]) = WHATSAPP_MAX_MESSAGE_LENGTH

\* A text with one header and two bold spans was cut at the bold spans.
C32_WitnessBold ==
    /\ C32_Oversized
    /\ Len(HeaderMatches(pure.text, 0)) <= 1
    /\ Len(BoldMatches(pure.text, 0)) >= 2
    /\ Len(pure.chunks) >= 2

\* A text without markers whose second paragraph is oversized.
C32_WitnessParagraph ==
    /\ C32_Oversized
    /\ BoldMatches(pure.text, 0) = << >>
    /\ Len(ReSplitBlank(pure.text, 0, 0)) = 2
    /\ Len(ReSplitBlank(pure.text, 0, 0)[2]) > WHATSAPP_MAX_MESSAGE_LENGTH

\* The webhook was answered MESSAGE_TOO_OLD and its background work is over.
C33_TooOldAndDone ==
    /\ pc = "done"
    /\ response.kind = "json"
    /\ response.body.error_code = "MESSAGE_TOO_OLD"

\* C33: when the incoming message is older than the age threshold, the user
\* is notified with a WhatsApp message, and the webhook answers 'Message too
\* old, notified user'.
C33_TooOldNotifiesUser ==
    C33_TooOldAndDone =>
        /\ response.body.message = "Message too old, notified user"
        /\ calls.send_message >= 1
        /\ sends # << >>

\* What the code does: the answer says so, and nothing is sent.
C33_TooOldSendsNothing ==
    C33_TooOldAndDone =>
        /\ response.body.message = "Message too old, notified user"
        /\ calls.send_message = 0
        /\ sends = << >>

C33_WitnessTooOld == C33_TooOldAndDone /\ HasPhone /\ HasMessageId

\* A user-facing message of one of the kinds has been delivered in full.
C34_Delivered(kinds) ==
    \E i \in 1..Len(sends) :
        /\ sends[i].kind \in kinds
        /\ sends[i].parts # << >>
        /\ sends[i].delivered = sends[i].parts

C34_AllKinds == {sends[i].kind : i \in 1..Len(sends)}

C34_IndicatorStep == calls'.send_typing_indicator = calls.send_typing_indicator + 1

\* C34: once a terminal user-facing message (the response, a failure notice,
\* the unsupported-type notice or the registration-failure notice) has been
\* sent, no further typing indicator is sent for the conversation context.
C34_NoIndicatorAfterTerminal ==
    [][C34_IndicatorStep => ~C34_Delivered(C34_AllKinds)]_vars

\* The same for the response alone: the loop is cancelled before it is sent.
C34_NoIndicatorAfterResponse ==
    [][C34_IndicatorStep => ~C34_Delivered({"response"})]_vars

\* An indicator was sent in a request whose only message is the notice of a
\* failed get_last_thread_info, delivered before the last indicator.
C34_WitnessAfterThreadNotice ==
    /\ pc = "done"
    /\ loop = "done"
    /\ calls.get_last_thread_info = 1
    /\ calls.process_message = 0
    /\ calls.create_thread = 0
    /\ Len(sends) = 1
    /\ C34_Delivered(C34_AllKinds)
    /\ calls.send_typing_indicator >= 12

(***************************************************************************)
(* Concurrent webhooks against the in-memory backend of AnsariClientMock   *)
(* (services/ansari_client_mock.py, no simulated errors: error_rate = 0).  *)
(* The webhooks are coroutines on one event loop: each backend call sleeps *)
(* (an await, where the other webhook may run) and then runs its body      *)
(* without a further await, so each call is one step, taken when its sleep *)
(* has returned; a request handed to the Messaging Client is awaited as    *)
(* well, so handing it over and what follows it are two steps.  clock is   *)
(* the time since the first webhook arrived: the sleep of a backend call   *)
(* takes up to max_latency_s seconds.  The state is held in pure:          *)
(*   _users    the phones registered (keys of AnsariClientMock._users) in  *)
(*             the singleton of service_provider: the instance the next    *)
(*             get_ansari_client() returns, a new and empty one after      *)
(*             reset_ansari_client()                                       *)
(*   _threads  its threads in creation order; thread k is mock_thread_k    *)
(*   resets    the number of calls of reset_ansari_client()                *)
(*   dropped   _users and _threads of the instance a reset has dropped,    *)
(*             which the managers constructed before the reset still hold  *)
(*   req       per webhook: the manager's user_phone_num and message_id,   *)
(*             the instance its manager holds (client, 0 before the        *)
(*             manager is constructed, then the number of resets before    *)
(*             plus one),                                                  *)
(*             its position, the result of check_and_register_user (as     *)
(*             text, Absent before it returns), the                        *)
(*             thread it resolved, its typing loop and the calls it made   *)
(*   outputs   what the Messaging Client was asked to deliver              *)
(* Each webhook carries a recent text message with a valid signature.      *)
(***************************************************************************)
Webhooks == {1, 2}
Phones == {"201234567899", "201234567800"}
WebhookMessageId(r) == IF r = 1 THEN "wamid.1" ELSE "wamid.2"

\* The index of the thread max() returns among the user's threads (the one
\* with the latest time, the first of them when several share it), or 0
\* when the user has none.  The key of max() is the time of the last message
\* (ISO texts of one format order as their times do) and "", which is below
\* every time, for a thread without one.
LatestThread(threads, phone) ==
    LET mine == {k \in 1..Len(threads) : threads[k].phone_num = phone}
        ThreadKey(t) == IF t.last_message_time = AbsentTime THEN -1
                        ELSE t.last_message_time
    IN  IF mine = {} THEN 0
        ELSE CHOOSE k \in mine :
               \A j \in mine :
                  \/ ThreadKey(threads[j]) < ThreadKey(threads[k])
                  \/ /\ ThreadKey(threads[j]) = ThreadKey(threads[k])
                     /\ k <= j

\* Mutation: one manager is shared by the webhooks, holding the phone of
\* the webhook that was constructed last.
ConRecipient_SharedManager(r) == pure.req[2].user_phone_num

\* phone_num = recipient_phone_num or self.user_phone_num
ConRecipient(r) == pure.req[r].user_phone_num

ConOutput(r, kind) ==
    [webhook |-> r, kind |-> kind, to |-> ConRecipient(r),
     message_id |-> IF kind = "typing" THEN pure.req[r].message_id ELSE Absent]

ConIdle ==
    UNCHANGED <<settings, request, backend, pc, response, manager, tasks, loop,
                timer, first_indicator_time, send, sends, calls>>

\* simulate_backend_behavior: delay = random.uniform(min_latency_s,
\* max_latency_s); await asyncio.sleep(delay): a call of the mock returns
\* min_latency_s to max_latency_s seconds after it was made.
min_latency_s == 1
max_latency_s == 2
ConDelays == min_latency_s..max_latency_s

\* The second webhook arrives with the first, during its backend calls, or
\* MaxArrivalGap seconds later, when the first has been handled.
MaxArrivalGap == 12

\* reset_ansari_client() is called at most MaxResets times.
MaxResets == 1

\* self.ansari_client of the manager of webhook r: the singleton it got from
\* get_ansari_client() when it was constructed, or the instance that has
\* been dropped since.
ConClient(r) ==
    IF pure.req[r].client = pure.resets + 1
    THEN [_users |-> pure._users, _threads |-> pure._threads]
    ELSE pure.dropped

\* p with the users and threads of the instance webhook r holds replaced.
ConStore(p, r, users, threads) ==
    IF pure.req[r].client = pure.resets + 1
    THEN [p EXCEPT !._users = users, !._threads = threads]
    ELSE [p EXCEPT !.dropped = [_users |-> users, _threads |-> threads]]

\* The event loop resumes the coroutine whose await returns first, among
\* the await of each webhook's endpoint or background task (due) and the
\* sleep or the indicator request of its typing loop (loop_due); clock is
\* the time of the step.
ConResumes(t) ==
    /\ \A w \in Webhooks :
          /\ pure.req[w].pc # "done" => t <= pure.req[w].due
          /\ pure.req[w].loop \in {"sleeping", "requesting"} => t <= pure.req[w].loop_due
    /\ clock' = t

\* The threads held when the webhooks arrive: none, one thread of a user
\* (its last message beyond the retention window or within it), or two
\* threads of one user of which the second has the later message.
InitialThreads ==
    {<< >>}
    \cup {<< [phone_num |-> p, last_message_time |-> t] >> :
             p \in Phones, t \in {T0 - get_retention_time_seconds - 1, T0 - 60}}
    \cup {<< [phone_num |-> p, last_message_time |-> t],
             [phone_num |-> p, last_message_time |-> T0 - 60] >> :
             p \in Phones, t \in {T0 - get_retention_time_seconds - 1, T0 - 3600}}

InitConcurrent ==
    /\ PureIdle
    /\ \E users \in SUBSET Phones, threads \in InitialThreads,
          phones \in [Webhooks -> Phones], gap \in {0, 1, 3, MaxArrivalGap} :
         /\ \A k \in 1..Len(threads) : threads[k].phone_num \in users
         /\ pure = [fn |-> "concurrent",
                    _users |-> users,
                    _threads |-> threads,
                    initial_users |-> users,
                    initial_threads |-> threads,
                    resets |-> 0,
                    dropped |-> [_users |-> {}, _threads |-> << >>],
                    outputs |-> {},
                    req |-> [r \in Webhooks |->
                               [user_phone_num |-> phones[r],
                                message_id |-> WebhookMessageId(r),
                                client |-> 0,
                                pc |-> "main_webhook",
                                due |-> IF r = 1 THEN 0 ELSE gap,
                                registered |-> Absent,
                                thread_id |-> 0,
                                loop |-> "none",
                                loop_due |-> AbsentTime,
                                first_indicator_time |-> AbsentTime,
                                send_typing_indicator |-> 0,
                                create_thread |-> 0]]]


\* reset_ansari_client(): the singleton is dropped and the next
\* get_ansari_client() creates an AnsariClientMock without users and
\* threads; the managers constructed before keep the dropped instance.
reset_ansari_client ==
    /\ pure.fn = "concurrent"
    /\ pure.resets < MaxResets
    /\ pure' = [pure EXCEPT !.resets = @ + 1,
                            !.dropped = [_users |-> pure._users,
                                         _threads |-> pure._threads],
                            !._users = {},
                            !._threads = << >>]
    /\ UNCHANGED clock
    /\ ConIdle

\* main_webhook on the arrival of webhook r: the manager is constructed,
\* taking the singleton from get_ansari_client(), and
\* check_and_register_user calls check_user_exists.
ConMainWebhook(r) ==
    /\ pure.fn = "concurrent"
    /\ pure.req[r].pc = "main_webhook"
    /\ ConResumes(pure.req[r].due)
    /\ \E d \in ConDelays :
         pure' = [pure EXCEPT !.req[r].client = pure.resets + 1,
                              !.req[r].pc = "check_user_exists",
                              !.req[r].due = @ + d]
    /\ ConIdle

\* check_and_register_user at the answer of check_user_exists; when the
\* user exists the endpoint answers and schedules the handler, otherwise it
\* calls register_user.
ConCheckUserExists(r) ==
    /\ pure.fn = "concurrent"
    /\ pure.req[r].pc = "check_user_exists"
    /\ ConResumes(pure.req[r].due)
    /\ LET exists == pure.req[r].user_phone_num \in ConClient(r)._users
       IN  IF exists
           THEN pure' = [pure EXCEPT !.req[r].pc = "typing",
                                     !.req[r].registered = "True"]
           ELSE \E d \in ConDelays :
                  pure' = [pure EXCEPT !.req[r].pc = "register_user",
                                       !.req[r].due = @ + d]
    /\ ConIdle


\* register_user of the mock: UserRegistrationError when the phone is
\* already in _users; check_and_register_user then hands its notice to the
\* Messaging Client and awaits the send.
ConRegisterUser(r) ==
    /\ pure.fn = "concurrent"
    /\ pure.req[r].pc = "register_user"
    /\ ConResumes(pure.req[r].due)
    /\ IF pure.req[r].user_phone_num \in ConClient(r)._users
       THEN pure' = [pure EXCEPT
                       !.req[r].pc = "register_failed_notice",
                       !.outputs = @ \cup {ConOutput(r, "register_failed_inline")}]
       ELSE pure' = ConStore([pure EXCEPT !.req[r].pc = "typing",
                                          !.req[r].registered = "True"],
                             r,
                             ConClient(r)._users \cup {pure.req[r].user_phone_num},
                             ConClient(r)._threads)
    /\ ConIdle


\* The awaited send of the notice returns and check_and_register_user
\* returns False; the endpoint answers and schedules its own notice.
ConRegisterFailedReturn(r) ==
    /\ pure.fn = "concurrent"
    /\ pure.req[r].pc = "register_failed_notice"
    /\ ConResumes(pure.req[r].due)
    /\ pure' = [pure EXCEPT !.req[r].pc = "typing",
                            !.req[r].registered = "False"]
    /\ ConIdle


\* send_typing_indicator_then_start_loop, the first background task, up to
\* its await: first_indicator_time is set and the first indicator is handed
\* to the Messaging Client.
ConTypingStart(r) ==
    /\ pure.fn = "concurrent"
    /\ pure.req[r].pc = "typing"
    /\ pure.req[r].send_typing_indicator = 0
    /\ ConResumes(pure.req[r].due)
    /\ pure' = [pure EXCEPT !.req[r].first_indicator_time = T0 + pure.req[r].due,
                            !.req[r].send_typing_indicator = 1,
                            !.outputs = @ \cup {ConOutput(r, "typing")}]
    /\ ConIdle

\* The awaited indicator request returns and
\* asyncio.create_task(self._typing_indicator_loop()); the next background
\* task is the handler, which calls get_last_thread_info, or the notice of
\* the failed registration.
ConStartLoop(r) ==
    /\ pure.fn = "concurrent"
    /\ pure.req[r].pc = "typing"
    /\ pure.req[r].send_typing_indicator = 1
    /\ ConResumes(pure.req[r].due)
    /\ IF pure.req[r].registered = "True"
       THEN \E d \in ConDelays :
              pure' = [pure EXCEPT
                         !.req[r].pc = "get_last_thread_info",
                         !.req[r].due = @ + d,
                         !.req[r].loop = "sleeping",
                         !.req[r].loop_due = pure.req[r].due + INDICATOR_INTERVAL_SECONDS]
       ELSE pure' = [pure EXCEPT
                       !.req[r].pc = "send_notice",
                       !.req[r].loop = "sleeping",
                       !.req[r].loop_due = pure.req[r].due + INDICATOR_INTERVAL_SECONDS]
    /\ ConIdle


\* A wake-up of _typing_indicator_loop: the end of the loop once more than
\* 300 s have passed since the first indicator, a further indicator handed
\* to the Messaging Client otherwise.
ConLoopWake(r) ==
    /\ pure.fn = "concurrent"
    /\ pure.req[r].loop = "sleeping"
    /\ ConResumes(pure.req[r].loop_due)
    /\ LET elapsed_time == (T0 + pure.req[r].loop_due) - pure.req[r].first_indicator_time
       IN  IF elapsed_time > MAX_DURATION_SECONDS
           THEN pure' = [pure EXCEPT !.req[r].loop = "done"]
           ELSE pure' = [pure EXCEPT
                           !.req[r].loop = "requesting",
                           !.req[r].send_typing_indicator = @ + 1,
                           !.outputs = @ \cup {ConOutput(r, "typing")}]
    /\ ConIdle

\* The awaited indicator request of the loop returns: the next sleep.
ConLoopIndicatorAnswered(r) ==
    /\ pure.fn = "concurrent"
    /\ pure.req[r].loop = "requesting"
    /\ ConResumes(pure.req[r].loop_due)
    /\ pure' = [pure EXCEPT !.req[r].loop = "sleeping",
                            !.req[r].loop_due = @ + INDICATOR_INTERVAL_SECONDS]
    /\ ConIdle


\* The notice main_webhook schedules after a failed registration.
ConSendNotice(r) ==
    /\ pure.fn = "concurrent"
    /\ pure.req[r].pc = "send_notice"
    /\ ConResumes(pure.req[r].due)
    /\ pure' = [pure EXCEPT !.req[r].pc = "done",
                            !.outputs = @ \cup {ConOutput(r, "register_failed")}]
    /\ ConIdle


\* handle_text_message at the answer of get_last_thread_info: a thread is
\* created when the user has none, or when the latest has no
\* last_message_time or one beyond the retention window at that time.
ConGetLastThreadInfo(r) ==
    /\ pure.fn = "concurrent"
    /\ pure.req[r].pc = "get_last_thread_info"
    /\ ConResumes(pure.req[r].due)
    /\ \E d \in ConDelays :
         LET k == LatestThread(ConClient(r)._threads, pure.req[r].user_phone_num)
         IN  IF k = 0 \/ ExceedsRetention(
                             calculate_time_passed(ConClient(r)._threads[k].last_message_time,
                                                   T0 + pure.req[r].due),
                             get_retention_time_seconds)
             THEN pure' = [pure EXCEPT !.req[r].pc = "create_thread",
                                       !.req[r].due = @ + d,
                                       !.req[r].thread_id = k]
             ELSE pure' = [pure EXCEPT !.req[r].pc = "process_message",
                                       !.req[r].due = @ + d,
                                       !.req[r].thread_id = k]
    /\ ConIdle


\* create_thread of the mock: a new thread without last_message_time.
ConCreateThread(r) ==
    /\ pure.fn = "concurrent"
    /\ pure.req[r].pc = "create_thread"
    /\ ConResumes(pure.req[r].due)
    /\ IF pure.req[r].user_phone_num \notin ConClient(r)._users
       THEN pure' = [pure EXCEPT
                       !.req[r].pc = "done",
                       !.req[r].create_thread = @ + 1,
                       !.outputs = @ \cup {ConOutput(r, "thread_creation_failed")}]
       ELSE \E d \in ConDelays :
              pure' = ConStore(
                         [pure EXCEPT
                            !.req[r].thread_id = Len(ConClient(r)._threads) + 1,
                            !.req[r].create_thread = @ + 1,
                            !.req[r].pc = "process_message",
                            !.req[r].due = @ + d],
                         r,
                         ConClient(r)._users,
                         Append(ConClient(r)._threads,
                                [phone_num |-> pure.req[r].user_phone_num,
                                 last_message_time |-> AbsentTime]))
    /\ ConIdle


\* process_message of the mock returns (the thread's last_message_time
\* becomes the time of the return): the typing loop is cancelled and the
\* response is handed over.  Or it raises MessageProcessingError: the notice
\* is handed over and its send awaited, and the loop is cancelled when that
\* await has returned.
ConProcessMessage(r) ==
    /\ pure.fn = "concurrent"
    /\ ConResumes(pure.req[r].due)
    /\ LET thread_id == pure.req[r].thread_id
           cancelled == IF pure.req[r].loop \in {"sleeping", "requesting"}
                        THEN "cancelled" ELSE pure.req[r].loop
       IN  IF pure.req[r].pc = "process_message"
           THEN IF ConClient(r)._threads[thread_id].phone_num # pure.req[r].user_phone_num
                THEN pure' = [pure EXCEPT
                                !.req[r].pc = "processing_failed_notice",
                                !.outputs = @ \cup {ConOutput(r, "processing_failed")}]
                ELSE pure' = ConStore(
                                [pure EXCEPT
                                   !.req[r].pc = "done",
                                   !.req[r].loop = cancelled,
                                   !.outputs = @ \cup {ConOutput(r, "response")}],
                                r,
                                ConClient(r)._users,
                                [ConClient(r)._threads EXCEPT
                                   ![thread_id].last_message_time =
                                       T0 + pure.req[r].due])
           ELSE /\ pure.req[r].pc = "processing_failed_notice"
                /\ pure' = [pure EXCEPT !.req[r].pc = "done",
                                        !.req[r].loop = cancelled]
    /\ ConIdle

NextConcurrent ==
    \/ reset_ansari_client
    \/ \E r \in Webhooks :
        \/ ConMainWebhook(r)
        \/ ConCheckUserExists(r)
        \/ ConRegisterUser(r)
        \/ ConRegisterFailedReturn(r)
        \/ ConTypingStart(r)
        \/ ConStartLoop(r)
        \/ ConLoopWake(r)
        \/ ConLoopIndicatorAnswered(r)
        \/ ConSendNotice(r)
        \/ ConGetLastThreadInfo(r)
        \/ ConCreateThread(r)
        \/ ConProcessMessage(r)

SpecConcurrent == InitConcurrent /\ [][NextConcurrent]_vars

C35_BothDone ==
    /\ pure.fn = "concurrent"
    /\ \A r \in Webhooks : pure.req[r].pc = "done"

\* C35: under any interleaving of concurrent webhooks, several from the same
\* unregistered phone included, against a backend that never faults, every
\* check_and_register_user call returns true and no registration-failure
\* notice is sent.  (Stated for the runs in which the backend client is not
\* reset, which only the test fixtures do.)
C35_RegistrationNeverFails ==
    (pure.fn = "concurrent" /\ pure.resets = 0) =>
        /\ \A r \in Webhooks : pure.req[r].registered # "False"
        /\ \A o \in pure.outputs :
              o.kind \notin {"register_failed_inline", "register_failed"}

\* The same when the webhooks come from different phones or from a phone
\* that was registered beforehand, the backend client not being reset.
C35_NoFailureWithoutRace ==
    (/\ pure.fn = "concurrent"
     /\ pure.resets = 0
     /\ \/ pure.req[1].user_phone_num # pure.req[2].user_phone_num
        \/ pure.req[1].user_phone_num \in pure.initial_users) =>
        /\ \A r \in Webhooks : pure.req[r].registered # "False"
        /\ \A o \in pure.outputs :
              o.kind \notin {"register_failed_inline", "register_failed"}

\* Two webhooks of one unregistered phone: one registered it, the other was
\* refused and its user got both notices.
C35_WitnessRace ==
    /\ C35_BothDone
    /\ pure.resets = 0
    /\ pure.req[1].user_phone_num = pure.req[2].user_phone_num
    /\ pure.req[1].user_phone_num \notin pure.initial_users
    /\ pure.req[1].registered = "True"
    /\ pure.req[2].registered = "False"
    /\ \E o \in pure.outputs : o.webhook = 2 /\ o.kind = "register_failed"

\* The first webhook of an unregistered user was handled, the backend
\* client was reset, and the second webhook of the user got a new client:
\* the user was registered again and a second first thread was created.
C35_WitnessReset ==
    /\ C35_BothDone
    /\ pure.resets = 1
    /\ pure.req[1].client = 1
    /\ pure.req[2].client = 2
    /\ pure.req[1].user_phone_num = pure.req[2].user_phone_num
    /\ pure.req[1].user_phone_num \notin pure.initial_users
    /\ \A r \in Webhooks :
          /\ pure.req[r].registered = "True"
          /\ pure.req[r].create_thread = 1
          /\ pure.req[r].thread_id = 1
    /\ pure.dropped._users = {pure.req[1].user_phone_num}
    /\ pure._users = {pure.req[2].user_phone_num}
    /\ Len(pure._threads) = 1

\* C37: every typing indicator and message emitted while handling a webhook
\* is addressed to the sender phone of that webhook, indicators referencing
\* its message id; with webhooks of different users no user receives output
\* produced for the other's message.
C37_OutputsToOwnSender ==
    pure.fn = "concurrent" =>
        /\ \A o \in pure.outputs :
              /\ o.to = pure.req[o.webhook].user_phone_num
              /\ o.kind = "typing" => o.message_id = WebhookMessageId(o.webhook)
        /\ pure.req[1].user_phone_num # pure.req[2].user_phone_num =>
              \A o \in pure.outputs :
                 \A r \in Webhooks \ {o.webhook} :
                    /\ o.to # pure.req[r].user_phone_num
                    /\ o.message_id # WebhookMessageId(r)

\* The first indicator of a webhook is handed over and its task awaits the
\* request, the loop not created yet, while the other webhook goes on.
C37_WitnessIndicatorAwaited ==
    /\ pure.fn = "concurrent"
    /\ pure.req[1].pc = "typing"
    /\ pure.req[1].loop = "none"
    /\ ConOutput(1, "typing") \in pure.outputs
    /\ pure.req[2].pc = "get_last_thread_info"

\* Webhooks of two users have both been answered, indicators included.
C37_Witness ==
    /\ C35_BothDone
    /\ pure.req[1].user_phone_num # pure.req[2].user_phone_num
    /\ \A r \in Webhooks :
          /\ \E o \in pure.outputs : o.webhook = r /\ o.kind = "response"
          /\ \E o \in pure.outputs : o.webhook = r /\ o.kind = "typing"

\* The webhooks come from one registered user who has no thread inside the
\* retention window when they arrive, and the backend client is not reset.
C38_SameUserNoLiveThread ==
    /\ pure.fn = "concurrent"
    /\ pure.resets = 0
    /\ pure.req[1].user_phone_num = pure.req[2].user_phone_num
    /\ \A k \in 1..Len(pure.initial_threads) :
          \/ pure.initial_threads[k].phone_num # pure.req[1].user_phone_num
          \/ T0 - pure.initial_threads[k].last_message_time
                > WHATSAPP_CHAT_RETENTION_HOURS * 3600

\* C38: under any interleaving of concurrent text webhooks from the same
\* user, at most one create_thread call is made while the user has no thread
\* inside the retention window, and the concurrent messages are processed in
\* the same thread.
C38_OneThreadCreated ==
    C38_SameUserNoLiveThread =>
        /\ pure.req[1].create_thread + pure.req[2].create_thread <= 1
        /\ Len(pure._threads) <= Len(pure.initial_threads) + 1
        /\ (\A r \in Webhooks : pure.req[r].pc = "done" /\ pure.req[r].registered = "True")
              => pure.req[1].thread_id = pure.req[2].thread_id

\* With a thread inside the retention window and the backend client not
\* reset no thread is created at all.
C38_LiveThreadReused ==
    (/\ pure.fn = "concurrent"
     /\ pure.resets = 0
     /\ pure.req[1].user_phone_num = pure.req[2].user_phone_num
     /\ \E k \in 1..Len(pure.initial_threads) :
           /\ pure.initial_threads[k].phone_num = pure.req[1].user_phone_num
           /\ T0 - pure.initial_threads[k].last_message_time
                 <= WHATSAPP_CHAT_RETENTION_HOURS * 3600) =>
        /\ \E t \in {AbsentTime} \cup T0..now :
              pure._threads =
                 [pure.initial_threads EXCEPT
                    ![LatestThread(pure.initial_threads, pure.req[1].user_phone_num)]
                        .last_message_time = IF t = AbsentTime THEN @ ELSE t]
        /\ \A r \in Webhooks : pure.req[r].create_thread = 0

\* A webhook of a registered user with a live thread was answered after
\* three calls of the backend: the thread carries the time of the return of
\* process_message.
C38_WitnessStamp ==
    /\ pure.fn = "concurrent"
    /\ pure.resets = 0
    /\ pure.req[1].pc = "done"
    /\ pure.req[1].create_thread = 0
    /\ pure.req[1].thread_id # 0
    /\ pure._threads[pure.req[1].thread_id].last_message_time
          = T0 + 3 * min_latency_s + 1
    /\ now = T0 + 3 * min_latency_s + 1

\* Two webhooks of one user were processed in two new threads.
C38_WitnessTwoThreads ==
    /\ C35_BothDone
    /\ C38_SameUserNoLiveThread
    /\ pure.req[1].create_thread = 1
    /\ pure.req[2].create_thread = 1
    /\ pure.req[1].thread_id # pure.req[2].thread_id
    /\ \A r \in Webhooks :
          \E o \in pure.outputs : o.webhook = r /\ o.kind = "response"

(***************************************************************************)
(* Termination of the typing loop.  The webhooks are those that start a    *)
(* loop: validly signed messages with a sender and an id, on each path of  *)
(* the workflow (text answered or failing in the backend, unsupported      *)
(* type, too old, registration failing).  asyncio.sleep returns, an       *)
(* indicator request is answered and time advances: a sleeping loop is    *)
(* woken and a request in flight returns (weak fairness on LoopWake and   *)
(* on LoopIndicatorAnswered).                                             *)
(***************************************************************************)
TerminationMessages ==
    {GoodMsg,
     [GoodMsg EXCEPT !.type = "image", !.type_value = "dict"],
     [GoodMsg EXCEPT !.type = "poll", !.type_value = Absent, !.errors_value = "list"],
     [GoodMsg EXCEPT !.timestamp = T0 - WHATSAPP_MESSAGE_AGE_THRESHOLD_SECONDS - 1]}

InitTermination ==
    /\ settings \in {st \in Settings : ~st.WHATSAPP_UNDER_MAINTENANCE}
    /\ request \in {[header |-> << Sha256Prefix,
                                   HexDigest(hmac_sha256("secretA", [GoodBody EXCEPT !.msg = m])) >>,
                     body |-> [GoodBody EXCEPT !.msg = m]] : m \in TerminationMessages}
    /\ settings.DEPLOYMENT_TYPE \in {"development", "production"}
          => request.body.msg = GoodMsg
    /\ backend \in BackendsFor(request)
    /\ pc = "verify"
    /\ response = NoResponse
    /\ manager = NoManager
    /\ tasks = << >>
    /\ loop = "none"
    /\ clock = 0
    /\ timer \in {[due |-> AbsentTime, left |-> l] :
                   l \in RequestTimesFor(settings, request)}
    /\ first_indicator_time = AbsentTime
    /\ send = NoSend
    /\ sends = << >>
    /\ calls = NoCalls
    /\ pure = NoPure

SpecTermination ==
    InitTermination /\ [][Next]_vars /\ WF_vars(LoopWake) /\ WF_vars(LoopIndicatorAnswered)

\* C36: every typing loop that is started eventually terminates, by
\* cancellation or by the 300-second cap, on every path of the workflow.
C36_LoopTerminates ==
    /\ (loop = "sleeping") ~> (loop \in {"cancelled", "done"})
    /\ [](loop = "done" => now - first_indicator_time > MAX_DURATION_SECONDS)

\* The loop of a too-old message, which nothing cancels, ended by its cap
\* after the request was over.
C36_Witness ==
    /\ loop = "done"
    /\ pc = "done"
    /\ response.kind = "json"
    /\ response.body.error_code = "MESSAGE_TOO_OLD"
    /\ calls.send_typing_indicator >= 12

\* The loop of an answered text message ended by cancellation.
C36_WitnessCancelled ==
    /\ loop = "cancelled"
    /\ pc = "done"
    /\ \E i \in 1..Len(sends) : sends[i].kind = "response"

\* Loops were started after a failed registration and for an unsupported
\* type, and ended by the cap.
C36_WitnessRegistrationFailed ==
    /\ loop = "done"
    /\ pc = "done"
    /\ response.kind = "json"
    /\ response.body.error_code = "USER_REGISTRATION_FAILED"

C36_WitnessUnsupported ==
    /\ loop = "done"
    /\ pc = "done"
    /\ manager.incoming_msg_type = "image"
    /\ sends # << >>

C39_SplitOutput == pure.fn = "split_message" /\ pure.stage = "output"

\* C39: split_message returns at least one chunk for every non-empty text,
\* so that a send never hands the Messaging Client an empty chunk list.
C39_AtLeastOneChunk ==
    (C39_SplitOutput /\ pure.text # << >>) => pure.chunks # << >>

\* The same for texts that hold a character other than a newline.
C39_AtLeastOneChunkUnlessBlank ==
    (C39_SplitOutput /\ \E i \in 1..Len(pure.text) : pure.text[i] # NL)
        => pure.chunks # << >>

\* An oversized text made of newlines alone was split into no chunk at all.
C39_WitnessNoChunk ==
    /\ C39_SplitOutput
    /\ Len(pure.text) > WHATSAPP_MAX_MESSAGE_LENGTH
    /\ \A i \in 1..Len(pure.text) : pure.text[i] = NL
    /\ pure.chunks = << >>

====
